---- MODULE Spec2Model ----
(***************************************************************************)
(* A model of pyprimes: the lazy prime generators (sieve, cookbook, croft, *)
(* wheel), the bounded sieve erat, the range wrapper primes(start, end),   *)
(* next_prime / prev_prime with their primality testers, and factorise /   *)
(* factors.  Generators are modelled as suspended computations: the state  *)
(* of an instance is the value of its local variables at the yield it is   *)
(* suspended at, and one next() call runs it to its following yield.       *)
(***************************************************************************)
EXTENDS Integers, Sequences, FiniteSets, TLC

VARIABLES gens, out, call

vars == <<gens, out, call>>

(***************************************************************************)
(* Bounds of the model.                                                    *)
(***************************************************************************)
\* next() calls made on the single instance of SpecSieve
MaxYield == 48
\* number of instances alive together in SpecInstances
NumInstances == 2
\* next() calls made on each instance of SpecInstances
MaxInterleave == 8
\* largest argument given to erat
MaxErat == 60
\* arguments range down to -MaxNeg
MaxNeg == 8
\* largest start given to primes(start, end)
MaxStart == 12
\* largest end given to primes(start, end)
MaxEnd == 14
\* next() calls made on one primes(start, end) generator
MaxRange == 8
\* largest argument given to next_prime and prev_prime
MaxArg == 400
\* prev_prime is followed down to candidates no smaller than -MaxDescent
MaxDescent == 9
\* factorise and factors are given the arguments -MaxFactor..MaxFactor
MaxFactor == 64
\* is_probable_prime is given the arguments -MaxNeg..MaxProbable
MaxProbable == 2100
\* the Miller-Rabin and Fermat tests are given n in -MaxNeg..MaxTested and
\* one base or a pair of bases in -1..MaxTested + 1
MaxTested == 20
\* the Fermat test is run on the Carmichael numbers up to MaxCarmichael
MaxCarmichael == 1800
\* nth_prime is given the arguments -MaxNeg..MaxNth
MaxNth == 50
\* prime_count is given the arguments -MaxNeg..MaxCount
MaxCount == 60
\* prime_sum is given the arguments -MaxNeg..MaxSums and prime_partial_sums
\* is advanced MaxSums + 1 times
MaxSums == 12
\* characteristic, checked_ints and checked_oddints are advanced until they
\* have yielded MaxFlags items
MaxFlags == 16

(***************************************************************************)
(* Python values.  None is <<>> and an int v that may be None is <<v>>.    *)
(* A dict is a function whose DOMAIN is its set of keys.                   *)
(***************************************************************************)
None == <<>>

Some(v) == <<v>>

EmptyDict == <<>>

\* table[k] = v
DictPut(t, k, v) == [x \in (DOMAIN t) \cup {k} |-> IF x = k THEN v ELSE t[x]]

\* del table[k]
DictDel(t, k) == [x \in (DOMAIN t) \ {k} |-> t[x]]

\* the element of a one-element set: Only({e(r) : r \in {v}}) is e(v), with v
\* computed once
Only(S) == CHOOSE x \in S : TRUE

(***************************************************************************)
(* Reference arithmetic the properties are stated with.                    *)
(***************************************************************************)
IsPrime(n) == n > 1 /\ \A d \in 2..(n - 1) : n % d # 0

\* s lists primes in ascending order starting at 2 without skipping any
IsPrimePrefix(s) ==
    \A j \in 1..Len(s) :
        /\ IsPrime(s[j])
        /\ IF j = 1 THEN s[j] = 2
           ELSE /\ s[j - 1] < s[j]
                /\ \A m \in (s[j - 1] + 1)..(s[j] - 1) : ~IsPrime(m)

(***************************************************************************)
(* sieve(): the incremental sieve of Eratosthenes.  An instance is the     *)
(* sequence of its nested generators: level 1 is the generator the caller  *)
(* holds and level k+1 is the innersieve of level k.  A level that has not *)
(* been started yet has run none of its body.                              *)
(***************************************************************************)
sieveFresh == [started |-> FALSE, i |-> 0, prevsq |-> 0, table |-> EmptyDict]

\* the bug of overwriting the entry another prime holds at nxt
sieveSkipOverwrite(table, nxt, prime) == nxt

RECURSIVE sieveSkip(_, _, _)
\* while nxt in table: nxt += prime
sieveSkip(table, nxt, prime) ==
    IF nxt \in DOMAIN table THEN sieveSkip(table, nxt + prime, prime) ELSE nxt

\* the bug of leaving the old entry in place: no del table[i]
sieveCrossKeep(table, i) ==
    LET prime == table[i]
    IN  DictPut(table, sieveSkip(DictDel(table, i), i + prime, prime), prime)

\* the branch taken when i is in the table: move the entry to its next multiple
sieveCross(table, i) ==
    LET prime == table[i]
        t1 == DictDel(table, i)
    IN  DictPut(t1, sieveSkip(t1, i + prime, prime), prime)

RECURSIVE sieveLoop(_, _)
RECURSIVE sieveNext(_, _)
\* the while True loop of level k, run from its top to the next yield
sieveLoop(s, k) ==
    LET lv == s[k] IN
    IF lv.i \in DOMAIN lv.table
    THEN sieveLoop([s EXCEPT ![k] = [lv EXCEPT !.table = sieveCross(lv.table, lv.i),
                                                !.i = lv.i + 1]], k)
    ELSE [val |-> lv.i, exc |-> "", st |-> s]

\* level k of the instance s brought to the top of its loop: the code before
\* the loop at the first next(), the code after the yield at a later one
sieveResume(s, k) ==
    LET lv == s[k] IN
    IF ~lv.started
    THEN Append([s EXCEPT ![k] = [started |-> TRUE, i |-> 2, prevsq |-> 1,
                                  table |-> EmptyDict]],
                sieveFresh)
    ELSE LET s1 == IF lv.i > lv.prevsq
                   THEN LET r == sieveNext(s, k + 1)
                            j == r.val
                        IN  [r.st EXCEPT ![k] = [lv EXCEPT !.prevsq = j * j,
                                                           !.table = DictPut(lv.table, j * j, j)]]
                   ELSE s
         IN  [s1 EXCEPT ![k] = [s1[k] EXCEPT !.i = lv.i + 1]]

\* next() on level k of the instance s
sieveNext(s, k) == sieveLoop(sieveResume(s, k), k)

RECURSIVE sieveExamined(_, _)
\* the candidates the loop of level k examines up to its next yield, each
\* with the table as the test i in table finds it
sieveExamined(s, k) ==
    LET lv == s[k] IN
    <<[i |-> lv.i, table |-> lv.table]>>
    \o (IF lv.i \in DOMAIN lv.table
        THEN sieveExamined([s EXCEPT ![k] = [lv EXCEPT !.table = sieveCross(lv.table, lv.i),
                                                       !.i = lv.i + 1]], k)
        ELSE <<>>)

(***************************************************************************)
(* cookbook(): q is the last odd candidate taken from the counter.         *)
(***************************************************************************)
cookbookFresh == [started |-> FALSE, q |-> 0, table |-> EmptyDict]

RECURSIVE cookbookSkip(_, _, _)
\* while x in table or not (x & 1): x += p
cookbookSkip(table, x, p) ==
    IF x \in DOMAIN table \/ x % 2 = 0 THEN cookbookSkip(table, x + p, p) ELSE x

RECURSIVE cookbookLoop(_, _)
\* the for loop over 3, 5, 7, ... from candidate q to the next yield
cookbookLoop(table, q) ==
    IF q \in DOMAIN table
    THEN LET p == table[q]
             t1 == DictDel(table, q)
         IN  cookbookLoop(DictPut(t1, cookbookSkip(t1, p + q, p), p), q + 2)
    ELSE [val |-> q, exc |-> "",
          st |-> [started |-> TRUE, q |-> q, table |-> DictPut(table, q * q, q)]]

cookbookNext(st) ==
    IF ~st.started
    THEN [val |-> 2, exc |-> "", st |-> [started |-> TRUE, q |-> 1, table |-> EmptyDict]]
    ELSE cookbookLoop(st.table, st.q + 2)

(***************************************************************************)
(* croft(): the Croft spiral sieve.  pc counts the values of (2, 3, 5)     *)
(* already yielded; pos counts the candidates 7, 9, 11, ... already taken  *)
(* from the counter; roots is unbound (empty here) until the generator is  *)
(* resumed after yielding 5.                                               *)
(***************************************************************************)
croftFresh == [pc |-> 0, pos |-> 0, roots |-> EmptyDict]

croftSmall == <<2, 3, 5>>

primeroots == {1, 7, 11, 13, 17, 19, 23, 29}

selectors == <<1, 0, 1, 1, 0, 1, 1, 0, 1, 0, 0, 1, 1, 0, 0>>

RECURSIVE croftSkip(_, _, _)
\* while x in roots or (x % 30) not in primeroots: x += 2*p
croftSkip(roots, x, p) ==
    IF x \in DOMAIN roots \/ (x % 30) \notin primeroots
    THEN croftSkip(roots, x + 2 * p, p)
    ELSE x

RECURSIVE croftLoopKeep(_, _)
\* the bug of moving an entry of roots without del roots[q]
croftLoopKeep(roots, pos) ==
    LET q == 7 + 2 * pos IN
    IF selectors[(pos % Len(selectors)) + 1] = 0
    THEN croftLoopKeep(roots, pos + 1)
    ELSE IF q \in DOMAIN roots
         THEN LET p == roots[q]
              IN  croftLoopKeep(DictPut(roots, croftSkip(roots, q + 2 * p, p), p), pos + 1)
         ELSE [val |-> q, exc |-> "",
               st |-> [pc |-> Len(croftSmall), pos |-> pos + 1,
                       roots |-> DictPut(roots, q * q, q)]]

RECURSIVE croftLoop(_, _)
\* the for loop over compress(7, 9, 11, ..., cycle(selectors)) to the next yield
croftLoop(roots, pos) ==
    LET q == 7 + 2 * pos IN
    IF selectors[(pos % Len(selectors)) + 1] = 0
    THEN croftLoop(roots, pos + 1)
    ELSE IF q \in DOMAIN roots
         THEN LET p == roots[q]
                  r1 == DictDel(roots, q)
              IN  croftLoop(DictPut(r1, croftSkip(r1, q + 2 * p, p), p), pos + 1)
         ELSE [val |-> q, exc |-> "",
               st |-> [pc |-> Len(croftSmall), pos |-> pos + 1,
                       roots |-> DictPut(roots, q * q, q)]]

croftNext(st) ==
    IF st.pc < Len(croftSmall)
    THEN [val |-> croftSmall[st.pc + 1], exc |-> "", st |-> [st EXCEPT !.pc = st.pc + 1]]
    ELSE IF st.pos = 0
         THEN croftLoop(DictPut(DictPut(EmptyDict, 9, 3), 25, 5), 0)
         ELSE croftLoop(st.roots, st.pos)

(***************************************************************************)
(* wheel(): wheel factorisation modulo 210.  pc counts the values of       *)
(* (2, 3, 5, 7, 11) already yielded, k the spokes already consumed, found  *)
(* is the list of (prime, square) pairs; found is unbound (empty here)     *)
(* until the generator is resumed after yielding 11.                       *)
(***************************************************************************)
wheelFresh == [pc |-> 0, i |-> 0, k |-> 0, found |-> <<>>]

wheelSmall == <<2, 3, 5, 7, 11>>

spokes ==
    <<2, 4, 2, 4, 6, 2, 6, 4, 2, 4, 6, 6, 2, 6, 4, 2, 6, 4, 6,
      8, 4, 2, 4, 2, 4, 8, 6, 4, 6, 2, 4, 6, 2, 6, 6, 4, 2, 4, 6, 2,
      6, 4, 2, 4, 2, 10, 2, 10>>

RECURSIVE wheelScan(_, _, _)
\* for p, p2 in found: "prime", "composite", or "exhausted" (the for-else)
wheelScan(found, i, idx) ==
    IF idx > Len(found) THEN "exhausted"
    ELSE IF found[idx][2] > i THEN "prime"
    ELSE IF i % found[idx][1] = 0 THEN "composite"
    ELSE wheelScan(found, i, idx + 1)

RECURSIVE wheelLoopNoAppend(_, _, _)
\* the bug of yielding a prime without found.append((i, i*i))
wheelLoopNoAppend(found, i0, k) ==
    LET i == i0 + spokes[(k % Len(spokes)) + 1]
        verdict == wheelScan(found, i, 1)
    IN  IF verdict = "prime"
        THEN [val |-> i, exc |-> "",
              st |-> [pc |-> Len(wheelSmall), i |-> i, k |-> k + 1, found |-> found]]
        ELSE IF verdict = "composite"
        THEN wheelLoopNoAppend(found, i, k + 1)
        ELSE [val |-> 0, exc |-> "RuntimeError",
              st |-> [pc |-> Len(wheelSmall), i |-> i, k |-> k + 1, found |-> found]]

RECURSIVE wheelLoop(_, _, _)
\* the for loop over cycle(spokes) to the next yield, or to the RuntimeError
wheelLoop(found, i0, k) ==
    LET i == i0 + spokes[(k % Len(spokes)) + 1]
        verdict == wheelScan(found, i, 1)
    IN  IF verdict = "prime"
        THEN [val |-> i, exc |-> "",
              st |-> [pc |-> Len(wheelSmall), i |-> i, k |-> k + 1,
                      found |-> Append(found, <<i, i * i>>)]]
        ELSE IF verdict = "composite"
        THEN wheelLoop(found, i, k + 1)
        ELSE [val |-> 0, exc |-> "RuntimeError",
              st |-> [pc |-> Len(wheelSmall), i |-> i, k |-> k + 1, found |-> found]]

wheelNext(st) ==
    IF st.pc < Len(wheelSmall)
    THEN [val |-> wheelSmall[st.pc + 1], exc |-> "",
          st |-> [st EXCEPT !.pc = st.pc + 1, !.i = wheelSmall[st.pc + 1]]]
    ELSE IF st.k = 0
         THEN wheelLoop(<<<<11, 121>>>>, st.i, 0)
         ELSE wheelLoop(st.found, st.i, st.k)

(***************************************************************************)
(* A generator object: the strategy that made it and its suspended state.  *)
(***************************************************************************)
Strategies == {"sieve", "cookbook", "croft", "wheel"}

\* calling the generator function: no line of the body has run yet
genNew(kind) ==
    [kind |-> kind,
     st |-> CASE kind = "sieve" -> [levels |-> <<sieveFresh>>]
              [] kind = "cookbook" -> cookbookFresh
              [] kind = "croft" -> croftFresh
              [] kind = "wheel" -> wheelFresh]

\* next(g): the value yielded (or the exception raised) and the generator after it
genNext(g) ==
    LET r == CASE g.kind = "sieve" ->
                      LET q == sieveNext(g.st.levels, 1)
                      IN  [val |-> q.val, exc |-> q.exc, st |-> [levels |-> q.st]]
               [] g.kind = "cookbook" -> cookbookNext(g.st)
               [] g.kind = "croft" -> croftNext(g.st)
               [] g.kind = "wheel" -> wheelNext(g.st)
    IN  [val |-> r.val, exc |-> r.exc, g |-> [kind |-> g.kind, st |-> r.st]]

NoGen == [kind |-> "none", st |-> [levels |-> <<>>]]

NoCall == [op |-> "none"]

(***************************************************************************)
(* SpecSieve: one fresh instance of a strategy, advanced by next().        *)
(***************************************************************************)
InitSieve ==
    /\ \E kind \in Strategies : gens = <<genNew(kind)>>
    /\ out = <<<<>>>>
    /\ call = NoCall

\* the bug of keeping a strategy's table in one place for all its instances
AdvanceShared(s, limit) ==
    /\ gens[s].kind \in Strategies
    /\ Len(out[s]) < limit
    /\ LET r == genNext(gens[s]) IN
       /\ r.exc = ""
       /\ gens' = [t \in DOMAIN gens |-> IF gens[t].kind = gens[s].kind THEN r.g ELSE gens[t]]
       /\ out' = [out EXCEPT ![s] = Append(@, r.val)]
    /\ UNCHANGED call

\* next(it) on instance s, at most limit times
Advance(s, limit) ==
    /\ gens[s].kind \in Strategies
    /\ Len(out[s]) < limit
    /\ LET r == genNext(gens[s]) IN
       /\ r.exc = ""
       /\ gens' = [gens EXCEPT ![s] = r.g]
       /\ out' = [out EXCEPT ![s] = Append(@, r.val)]
    /\ UNCHANGED call

NextSieve == Advance(1, MaxYield)

SpecSieve == InitSieve /\ [][NextSieve]_vars

\* C1: the values a fresh instance of any lazy strategy has produced are the
\* first primes: starting at 2, strictly increasing, all prime, none skipped
C1_StreamIsPrimes == \A s \in DOMAIN out : IsPrimePrefix(out[s])

\* a strategy has been run past the first composite its table must cross off
C1_Witness ==
    /\ Len(out[1]) = MaxYield
    /\ gens[1].kind = "croft"
    /\ out[1][MaxYield] > 49

(***************************************************************************)
(* SpecInstances: several generator objects alive together.  The caller    *)
(* may bind any slot to a new instance of any strategy at any time (the    *)
(* instance the slot held before is discarded) and may call next() on the  *)
(* instances in any order.                                                 *)
(***************************************************************************)
InitInstances ==
    /\ gens = [s \in 1..NumInstances |-> NoGen]
    /\ out = [s \in 1..NumInstances |-> <<>>]
    /\ call = NoCall

\* it = strategy(): slot s now holds a new instance, whatever it held before
Create(s, kind) ==
    /\ gens' = [gens EXCEPT ![s] = genNew(kind)]
    /\ out' = [out EXCEPT ![s] = <<>>]
    /\ UNCHANGED call

NextInstances ==
    \E s \in 1..NumInstances :
        \/ \E kind \in Strategies : Create(s, kind)
        \/ Advance(s, MaxInterleave)

SpecInstances == InitInstances /\ [][NextInstances]_vars

\* C2: in any interleaving of factory calls and next() calls on several
\* instances, the value an instance produces is the prime following the ones
\* it produced before (2 for a new instance), and a step that creates,
\* replaces or advances one instance leaves every other instance unchanged
C2_InstancesIndependent ==
    [][\A s \in DOMAIN gens :
          (gens'[s] # gens[s] \/ out'[s] # out[s]) =>
              /\ IsPrimePrefix(out'[s])
              /\ \/ out'[s] = <<>>
                 \/ /\ Len(out'[s]) = Len(out[s]) + 1
                    /\ SubSeq(out'[s], 1, Len(out[s])) = out[s]
              /\ \A t \in DOMAIN gens \ {s} : gens'[t] = gens[t] /\ out'[t] = out[t]]_vars

\* two instances of one strategy and of different ages, both past their start
C2_Witness ==
    /\ gens[1].kind = "sieve" /\ gens[2].kind = "sieve"
    /\ out[1] = <<2, 3, 5, 7, 11>>
    /\ out[2] = <<2, 3>>

(***************************************************************************)
(* The default generator: primes = croft.                                  *)
(***************************************************************************)
best_sieve == "croft"

RECURSIVE primes_belowFrom(_, _)
\* for p in primes(): if p > x: return; yield p   (g is the generator so far)
primes_belowFrom(g, x) ==
    Only({ IF r.val > x THEN <<>> ELSE <<r.val>> \o primes_belowFrom(r.g, x)
           : r \in {genNext(g)} })

\* list(primes_below(x))
primes_below(x) == primes_belowFrom(genNew(best_sieve), x)

(***************************************************************************)
(* erat(n): the bounded sieve.  arr is a function on 0..n (the list        *)
(* indices); a crossed-off cell holds None.                                *)
(***************************************************************************)
\* for p in range(i*i, n+1, i): arr[p] = None
eratMark(arr, i, n) ==
    [x \in DOMAIN arr |->
        IF x >= i * i /\ x <= n /\ (x - i * i) % i = 0 THEN None ELSE arr[x]]

RECURSIVE eratAdvance(_, _, _)
\* while i <= n and arr[i] is None: i += 1
eratAdvance(arr, i, n) ==
    IF i <= n /\ arr[i] = None THEN eratAdvance(arr, i + 1, n) ELSE i

RECURSIVE eratLoopStrict(_, _, _)
\* the bug of stopping the outer loop at i*i < n
eratLoopStrict(arr, i, n) ==
    IF i * i < n
    THEN LET a1 == eratMark(arr, i, n)
         IN  eratLoopStrict(a1, eratAdvance(a1, i + 1, n), n)
    ELSE arr

RECURSIVE eratLoop(_, _, _)
\* while i*i <= n: cross out the multiples of i, advance i
eratLoop(arr, i, n) ==
    IF i * i <= n
    THEN LET a1 == eratMark(arr, i, n)
         IN  eratLoop(a1, eratAdvance(a1, i + 1, n), n)
    ELSE arr

RECURSIVE eratFilter(_, _, _)
\* list(filter(None, arr)): the cells that are neither None nor 0, in order
eratFilter(arr, x, n) ==
    IF x > n THEN <<>>
    ELSE (IF arr[x] # None /\ arr[x] # Some(0) THEN <<arr[x][1]>> ELSE <<>>)
         \o eratFilter(arr, x + 1, n)

\* erat(n): the list returned, or the exception raised
erat(n) ==
    LET arr0 == [x \in 0..n |-> Some(x)] IN
    IF 0 \notin DOMAIN arr0 \/ 1 \notin DOMAIN arr0
    THEN [exc |-> "IndexError", val |-> <<>>]
    ELSE LET arr1 == [arr0 EXCEPT ![0] = None, ![1] = None]
         IN  [exc |-> "", val |-> eratFilter(eratLoop(arr1, 2, n), 0, n)]

(***************************************************************************)
(* SpecErat: one call erat(n), for every n of the range.                   *)
(***************************************************************************)
InitErat ==
    /\ gens = <<>>
    /\ out = <<>>
    /\ \E n \in (-MaxNeg)..MaxErat :
          call = [op |-> "erat", n |-> n, pc |-> "call", exc |-> "", val |-> <<>>]

EratCall ==
    /\ call.op = "erat" /\ call.pc = "call"
    /\ LET r == erat(call.n)
       IN  call' = [call EXCEPT !.pc = "done", !.exc = r.exc, !.val = r.val]
    /\ UNCHANGED <<gens, out>>

NextErat == EratCall

SpecErat == InitErat /\ [][NextErat]_vars

\* C3: for n >= 2, erat(n) returns the ascending list of exactly the primes
\* p <= n, which is also what the default lazy generator yields up to n
C3_EratIsPrimesUpTo ==
    (call.op = "erat" /\ call.pc = "done" /\ call.n >= 2) =>
        /\ call.exc = ""
        /\ IsPrimePrefix(call.val)
        /\ \A m \in 2..call.n : IsPrime(m) => \E j \in 1..Len(call.val) : call.val[j] = m
        /\ \A j \in 1..Len(call.val) : call.val[j] <= call.n
        /\ call.val = primes_below(call.n)

\* erat has returned for a bound whose square root needs several sieving primes
C3_Witness ==
    /\ call.op = "erat" /\ call.pc = "done" /\ call.n = 50
    /\ Len(call.val) = 15

\* C4: for every n < 2, erat(n) returns the empty list and raises nothing
C4_EratEmptyBelowTwo ==
    (call.op = "erat" /\ call.pc = "done" /\ call.n < 2) =>
        (call.exc = "" /\ call.val = <<>>)

(***************************************************************************)
(* primes(start, end, strategy): the range wrapper, in its three copies:   *)
(* "pkg" is pyprimes/__init__.py (start defaults to None), "pkg2" is       *)
(* pyprimes2/__init__.py and "mod" is primes2 of pyprimes.py (start        *)
(* defaults to 0).  w holds the arguments and the local p, g is the local  *)
(* iterator (it, resp. primes).                                            *)
(***************************************************************************)
Variants == {"pkg", "pkg2", "mod"}

\* if strategy is None: from pyprimes.sieves import best_sieve as strategy
primesStrategy(strategy) == IF strategy = "None" THEN best_sieve ELSE strategy

RECURSIVE primesDropExclusive(_, _, _)
\* the bug of dropping start itself: while p <= start
primesDropExclusive(g, p, start) ==
    IF p <= start
    THEN Only({ primesDropExclusive(r.g, r.val, start) : r \in {genNext(g)} })
    ELSE [g |-> g, p |-> p]

RECURSIVE primesDrop(_, _, _)
\* while p < start: p = next(it)
primesDrop(g, p, start) ==
    IF p < start
    THEN Only({ primesDrop(r.g, r.val, start) : r \in {genNext(g)} })
    ELSE [g |-> g, p |-> p]

\* while (end is None) or (p < end): yield p    -- the test made with p in hand
primesYield(w, g, p) ==
    IF w.end = None \/ p < w.end[1]
    THEN [val |-> p, exc |-> "", g |-> g, w |-> [w EXCEPT !.p = p, !.pc = "yielded"]]
    ELSE [val |-> 0, exc |-> "StopIteration", g |-> g,
          w |-> [w EXCEPT !.p = p, !.pc = "stopped"]]

\* one next() call on the wrapper
primesNext(w, g) ==
    IF w.pc = "fresh"
    THEN Only({ Only({ primesYield(w, d.g, d.p)
                       : d \in {IF w.variant = "pkg" /\ w.start = None
                                THEN [g |-> r0.g, p |-> r0.val]
                                ELSE primesDrop(r0.g, r0.val, w.start[1])} })
                : r0 \in {genNext(genNew(primesStrategy(w.strategy)))} })
    ELSE Only({ primesYield(w, r.g, r.val) : r \in {genNext(g)} })

(***************************************************************************)
(* SpecPrimes: one generator primes(start, end, strategy), advanced by     *)
(* next() until it stops.                                                  *)
(***************************************************************************)
InitPrimes ==
    /\ gens = <<NoGen>>
    /\ out = <<<<>>>>
    /\ \E variant \in Variants, strategy \in Strategies \cup {"None"},
          start \in {None} \cup {Some(v) : v \in (-MaxNeg)..MaxStart},
          end \in {None} \cup {Some(v) : v \in (-MaxNeg)..MaxEnd} :
          /\ start = None => variant = "pkg"
          /\ call = [op |-> "primes", variant |-> variant, start |-> start, end |-> end,
                     strategy |-> strategy, p |-> 0, pc |-> "fresh"]

PrimesNext ==
    /\ call.op = "primes" /\ call.pc # "stopped"
    /\ Len(out[1]) < MaxRange
    /\ LET r == primesNext(call, gens[1]) IN
       /\ call' = r.w
       /\ gens' = <<r.g>>
       /\ out' = IF r.exc = "" THEN <<Append(out[1], r.val)>> ELSE out

NextPrimes == PrimesNext

SpecPrimes == InitPrimes /\ [][NextPrimes]_vars

\* m is a prime of the half-open range [start, end)
PrimesInRange(m) ==
    /\ IsPrime(m)
    /\ call.start = None \/ m >= call.start[1]
    /\ call.end = None \/ m < call.end[1]

\* C5: primes(start, end, strategy) yields, ascending and once each, exactly
\* the primes p with start <= p < end; with start None it begins at 2, with
\* end None it never stops, and when the range holds no prime it yields
\* nothing and stops
C5_PrimesRange ==
    call.op = "primes" =>
        /\ \A j \in 1..Len(out[1]) :
              /\ PrimesInRange(out[1][j])
              /\ \A m \in (IF j = 1 THEN 2 ELSE out[1][j - 1] + 1)..(out[1][j] - 1) :
                    ~PrimesInRange(m)
              /\ j > 1 => out[1][j - 1] < out[1][j]
        /\ call.pc = "stopped" =>
              /\ call.end # None
              /\ \A m \in 2..(call.end[1] - 1) :
                    PrimesInRange(m) => \E j \in 1..Len(out[1]) : out[1][j] = m
        /\ (call.start = None /\ Len(out[1]) >= 1) => out[1][1] = 2
        /\ (call.pc # "fresh" /\ call.end # None
              /\ \A m \in 2..(call.end[1] - 1) : ~PrimesInRange(m)) =>
              (call.pc = "stopped" /\ out[1] = <<>>)

\* a range with both ends set, starting on a prime, has been yielded whole
C5_Witness ==
    /\ call.op = "primes" /\ call.pc = "stopped"
    /\ call.start = Some(5) /\ call.end = Some(14)
    /\ out[1] = <<5, 7, 11, 13>>

(***************************************************************************)
(* Primality testing.  Every integer the model can hold is below 2^31; a   *)
(* limit above that is written in three parts (see Below), and of          *)
(* _choose_bases only the rows below it are written.                       *)
(***************************************************************************)
RECURSIVE pow(_, _, _)
\* pow(b, e, n), by binary exponentiation
pow(b, e, n) ==
    IF e = 0 THEN 1 % n
    ELSE LET h == pow(b, e \div 2, n)
             sq == (h * h) % n
         IN  IF e % 2 = 1 THEN (sq * b) % n ELSE sq

RECURSIVE _factor2From(_, _)
\* while 1: q, r = divmod(d, 2); if r == 1: break; i += 1; d = q
_factor2From(d, i) ==
    IF d % 2 = 1 THEN <<d, i>> ELSE _factor2From(d \div 2, i + 1)

\* _factor2(n) = (d, i) with n = d * 2**i and d odd
_factor2(n) == _factor2From(n, 0)

RECURSIVE _is_compositeFrom(_, _, _, _, _)
\* for i in range(s): if pow(b, 2**i * d, n) == n-1: return False
_is_compositeFrom(b, d, s, n, i) ==
    IF i >= s THEN TRUE
    ELSE IF pow(b, (2 ^ i) * d, n) = n - 1 THEN FALSE
    ELSE _is_compositeFrom(b, d, s, n, i + 1)

\* the bug of starting the squaring loop at i = 1
_is_compositeSkipFirst(b, d, s, n) ==
    IF pow(b, d, n) = 1 THEN FALSE ELSE _is_compositeFrom(b, d, s, n, 1)

\* _is_composite(b, d, s, n): base b proves n composite
_is_composite(b, d, s, n) ==
    IF pow(b, d, n) = 1 THEN FALSE ELSE _is_compositeFrom(b, d, s, n, 0)

\* is_miller_rabin_probable_prime(n, base) of pyprimes/probabilistic.py
is_miller_rabin_probable_prime(n, base) ==
    IF n < 2 THEN 0
    ELSE IF n = 2 THEN 1
    ELSE IF n % 2 = 0 THEN 0
    ELSE LET ds == _factor2(n - 1) IN
         IF \E k \in 1..Len(base) : _is_composite(base[k], ds[1], ds[2], n)
         THEN 0
         ELSE 2

\* the bug of raising the base to the power n instead of n - 1
is_fermat_probable_primeExponentN(n, base) ==
    IF n < 2 THEN 0
    ELSE IF n = 2 THEN 1
    ELSE IF n % 2 = 0 THEN 0
    ELSE IF \E k \in 1..Len(base) : pow(base[k], n, n) # 1
         THEN 0
         ELSE 2

\* is_fermat_probable_prime(n, base) of pyprimes/probabilistic.py
is_fermat_probable_prime(n, base) ==
    IF n < 2 THEN 0
    ELSE IF n = 2 THEN 1
    ELSE IF n % 2 = 0 THEN 0
    ELSE IF \E k \in 1..Len(base) : pow(base[k], n - 1, n) # 1
         THEN 0
         ELSE 2

\* IsProbablePrime.primes
smallprimes == <<2, 3, 5, 7, 11, 13, 17, 19>>

\* IsProbablePrime._simple
_simple(n) == IF n < 2 THEN 0 ELSE 2

RECURSIVE _trial_divisionFrom(_, _)
\* for p in self.primes: ...; then if p**2 > n: return 1; return 2
_trial_divisionFrom(n, k) ==
    IF k > Len(smallprimes)
    THEN (IF smallprimes[Len(smallprimes)] ^ 2 > n THEN 1 ELSE 2)
    ELSE IF n = smallprimes[k] THEN 1
    ELSE IF n % smallprimes[k] = 0 THEN 0
    ELSE _trial_divisionFrom(n, k + 1)

\* IsProbablePrime._trial_division
_trial_division(n) == _trial_divisionFrom(n, 1)

\* n < hi * 10^18 + mid * 10^9 + lo, for a limit <<hi, mid, lo>> too large to
\* be written as one number and 0 <= n
Below(n, limit) ==
    LET mid == n \div 1000000000
        lo == n % 1000000000
    IN  \/ 0 < limit[1]
        \/ 0 = limit[1] /\ mid < limit[2]
        \/ 0 = limit[1] /\ mid = limit[2] /\ lo < limit[3]

\* the table of bases of _determistic_miller_rabin; <<>> for its last branch,
\* else: return 2
_determistic_bases(n) ==
    IF n < 2047 THEN <<2>>
    ELSE IF n < 1373653 THEN <<2, 3>>
    ELSE IF n < 9080191 THEN <<31, 73>>
    ELSE IF n < 25326001 THEN <<2, 3, 5>>
    ELSE IF Below(n, <<0, 3, 215031751>>) THEN <<2, 3, 5, 7>>
    ELSE IF Below(n, <<0, 4, 759123141>>) THEN <<2, 7, 61>>
    ELSE IF Below(n, <<0, 2152, 302898747>>) THEN <<2, 3, 5, 7, 11>>
    ELSE IF Below(n, <<0, 3474, 749660383>>) THEN <<2, 3, 5, 7, 11, 13>>
    ELSE IF Below(n, <<0, 341550, 71728321>>) THEN <<2, 3, 5, 7, 11, 13, 17>>
    ELSE IF Below(n, <<3, 825123056, 546413051>>) THEN <<2, 3, 5, 7, 11, 13, 17, 19, 23>>
    ELSE <<>>

\* the bug of returning the flag 2 of the Miller-Rabin test unchanged
_determistic_miller_rabinRaw(n) ==
    IF _determistic_bases(n) = <<>> THEN 2
    ELSE is_miller_rabin_probable_prime(n, _determistic_bases(n))

\* IsProbablePrime._determistic_miller_rabin
_determistic_miller_rabin(n) ==
    IF _determistic_bases(n) = <<>> THEN 2
    ELSE LET flag == is_miller_rabin_probable_prime(n, _determistic_bases(n))
         IN  IF flag = 2 THEN 1 ELSE flag

\* IsProbablePrime._prime_miller_rabin
_prime_miller_rabin(n) == is_miller_rabin_probable_prime(n, smallprimes)

\* IsProbablePrime._randomized_miller_rabin: the flags it can return.  The
\* test of a tuple of bases gives 0 when one of them gives 0 and else what
\* they all give, so over every choice of count random bases in 2..n-1 the
\* flags are those of the single bases
_randomized_miller_rabin(n) ==
    {is_miller_rabin_probable_prime(n, <<b>>) : b \in 2..(n - 1)}

\* IsProbablePrime._methods
_methods ==
    <<"_simple", "_trial_division", "_determistic_miller_rabin", "_prime_miller_rabin",
      "_randomized_miller_rabin">>

\* method(self, n): the flags the k-th method can return
methodFlags(k, n) ==
    CASE k = 1 -> {_simple(n)}
      [] k = 2 -> {_trial_division(n)}
      [] k = 3 -> {_determistic_miller_rabin(n)}
      [] k = 4 -> {_prime_miller_rabin(n)}
      [] k = 5 -> _randomized_miller_rabin(n)

RECURSIVE _check_primalityFromOnlyZero(_, _)
\* the bug of going on after a flag 1: if flag == 0
_check_primalityFromOnlyZero(n, k) ==
    UNION { IF flag = 0 \/ k = Len(_methods)
            THEN {[name |-> _methods[k], flag |-> flag, ran |-> k]}
            ELSE _check_primalityFromOnlyZero(n, k + 1)
            : flag \in methodFlags(k, n) }

RECURSIVE _check_primalityFrom(_, _)
\* for method in self._methods, from the k-th on: the (name, flag) pairs that
\* can be returned, with the number of methods run
_check_primalityFrom(n, k) ==
    UNION { IF flag \in {0, 1} \/ k = Len(_methods)
            THEN {[name |-> _methods[k], flag |-> flag, ran |-> k]}
            ELSE _check_primalityFrom(n, k + 1)
            : flag \in methodFlags(k, n) }

\* IsProbablePrime._check_primality
_check_primality(n) == _check_primalityFrom(n, 1)

\* is_probable_prime(n) for n below the limit of the table of bases: the
\* stages in order, up to the first flag that is 0 or 1.  The last stage runs
\* only after the deterministic stage returned 2, which it does for no such n.
is_probable_prime(n) ==
    IF _simple(n) \in {0, 1} THEN _simple(n)
    ELSE IF _trial_division(n) \in {0, 1} THEN _trial_division(n)
    ELSE IF _determistic_miller_rabin(n) \in {0, 1} THEN _determistic_miller_rabin(n)
    ELSE _prime_miller_rabin(n)

\* the bug of accepting only the int flags 0 and 1
is_primeFlagNoTwo(flag) ==
    IF flag.type = "bool" THEN [exc |-> "", val |-> flag.val = 1, warn |-> FALSE]
    ELSE IF flag.type = "int"
    THEN IF flag.val \in {0, 1}
         THEN [exc |-> "", val |-> flag.val # 0, warn |-> flag.val = 2]
         ELSE [exc |-> "ValueError", val |-> FALSE, warn |-> FALSE]
    ELSE [exc |-> "TypeError", val |-> FALSE, warn |-> FALSE]

\* is_prime after flag = prover(n).  A flag is its Python type and its value
\* (True and False are 1 and 0 of type bool); warn says that
\* warnings.warn(message, MaybeComposite) was called before the return
is_primeFlag(flag) ==
    IF flag.type = "bool" THEN [exc |-> "", val |-> flag.val = 1, warn |-> FALSE]
    ELSE IF flag.type = "int"
    THEN IF flag.val \in {0, 1, 2}
         THEN [exc |-> "", val |-> flag.val # 0, warn |-> flag.val = 2]
         ELSE [exc |-> "ValueError", val |-> FALSE, warn |-> FALSE]
    ELSE [exc |-> "TypeError", val |-> FALSE, warn |-> FALSE]

\* is_prime(n) of the package with the default prover
is_prime(n) == is_primeFlag([type |-> "int", val |-> is_probable_prime(n)]).val

\* the bug of letting the base n through: 1 <= b <= n
_base_to_basesOkInclusive(bases, n) ==
    \A k \in 1..Len(bases) : 1 <= bases[k] /\ bases[k] <= n

\* _base_to_bases(base, n) of pyprimes.py: every base b has 1 <= b < n
_base_to_basesOk(bases, n) == \A k \in 1..Len(bases) : 1 <= bases[k] /\ bases[k] < n

\* _base_to_bases(base, n): base is an int ([type |-> "int", val |-> <<b>>])
\* or a tuple ([type |-> "tuple", val |-> the tuple]); the tuple returned, or
\* ValueError
_base_to_bases(base, n) ==
    IF _base_to_basesOk(base.val, n)
    THEN [exc |-> "", val |-> base.val]
    ELSE [exc |-> "ValueError", val |-> <<>>]

\* miller_rabin(n, base) of pyprimes.py: ValueError, or True / False
miller_rabin(n, bases) ==
    IF ~_base_to_basesOk(bases, n) THEN [exc |-> "ValueError", val |-> FALSE]
    ELSE IF n < 2 THEN [exc |-> "", val |-> FALSE]
    ELSE IF n = 2 THEN [exc |-> "", val |-> TRUE]
    ELSE IF n % 2 = 0 THEN [exc |-> "", val |-> FALSE]
    ELSE LET ds == _factor2(n - 1) IN
         [exc |-> "",
          val |-> ~\E k \in 1..Len(bases) : _is_composite(bases[k], ds[1], ds[2], n)]

\* fermat(n, base) of pyprimes.py: ValueError, or True / False
fermat(n, bases) ==
    IF ~_base_to_basesOk(bases, n) THEN [exc |-> "ValueError", val |-> FALSE]
    ELSE IF n < 2 THEN [exc |-> "", val |-> FALSE]
    ELSE IF n = 2 THEN [exc |-> "", val |-> TRUE]
    ELSE IF n % 2 = 0 THEN [exc |-> "", val |-> FALSE]
    ELSE [exc |-> "", val |-> ~\E k \in 1..Len(bases) : pow(bases[k], n - 1, n) # 1]

\* CARMICHAEL_NUMBERS of pyprimes/carmichael.py
CARMICHAEL_NUMBERS ==
    <<561, 1105, 1729, 2465, 2821, 6601, 8911, 10585, 15841,
      29341, 41041, 46657, 52633, 62745, 63973, 75361, 101101, 115921,
      126217, 162401, 172081, 188461, 252601, 278545, 294409, 314821, 334153,
      340561, 399001, 410041, 449065, 488881, 512461>>

\* _choose_bases(n, count) of pyprimes.py
_choose_bases(n) ==
    IF n < 1373653 THEN <<2, 3>>
    ELSE IF n < 9080191 THEN <<31, 73>>
    ELSE <<2, 7, 61>>

\* isprime(n) of pyprimes.py
isprime(n) ==
    IF n < 2 THEN FALSE
    ELSE IF n = 2 THEN TRUE
    ELSE IF n % 2 = 0 THEN FALSE
    ELSE IF n <= 7 THEN TRUE
    ELSE miller_rabin(n, _choose_bases(n)).val

(***************************************************************************)
(* next_prime(n, isprime) and prev_prime(n, isprime).  The argument        *)
(* isprime is "None" or names a function of the caller: "mult5" accepts    *)
(* the multiples of 5 and "odd" the odd numbers.  next_prime of pyprimes.py *)
(* ("mod") takes no isprime and asks its own isprime.  asked is the set of *)
(* testers the call has asked so far.                                      *)
(***************************************************************************)
CallerTesters == {"mult5", "odd"}

\* f(m) for the tester named f
testerAccepts(f, m) ==
    CASE f = "is_prime" -> is_prime(m)
      [] f = "isprime" -> isprime(m)
      [] f = "mult5" -> m % 5 = 0
      [] f = "odd" -> m % 2 = 1

\* if isprime is None: isprime = is_prime
testerBound(isprime_arg) == IF isprime_arg = "None" THEN "is_prime" ELSE isprime_arg

\* the bug of returning 2 for n = 2 as well
next_primeStartInclusive(n) ==
    IF n <= 2 THEN [ret |-> Some(2), cand |-> n]
    ELSE IF n % 2 = 0 THEN [ret |-> None, cand |-> n + 1]
    ELSE [ret |-> None, cand |-> n + 2]

\* next_prime up to its loop: return 2 below 2, else step to the next odd number
next_primeStart(n) ==
    IF n < 2 THEN [ret |-> Some(2), cand |-> n]
    ELSE IF n % 2 = 0 THEN [ret |-> None, cand |-> n + 1]
    ELSE [ret |-> None, cand |-> n + 2]

\* the tester asked by the loop of next_prime: while not is_prime(n)
next_primeTester(w) == IF w.variant = "mod" THEN "isprime" ELSE "is_prime"

\* the bug of raising only below 2
prev_primeStartStrict(n) ==
    IF n < 2 THEN [exc |-> "ValueError", cand |-> n]
    ELSE IF n % 2 = 1 THEN [exc |-> "", cand |-> n - 2]
    ELSE [exc |-> "", cand |-> n - 1]

\* prev_prime up to its loop: raise at 2 and below, else step to the odd number below
prev_primeStart(n) ==
    IF n <= 2 THEN [exc |-> "ValueError", cand |-> n]
    ELSE IF n % 2 = 1 THEN [exc |-> "", cand |-> n - 2]
    ELSE [exc |-> "", cand |-> n - 1]

\* the tester asked by the loop of prev_prime: while not isprime(n)
prev_primeTester(w) == testerBound(w.isprime)

(***************************************************************************)
(* SpecAdjacent: one call of next_prime or prev_prime, followed through    *)
(* its loop one test at a time.  A running call keeps running.             *)
(***************************************************************************)
InitAdjacent ==
    /\ gens = <<>>
    /\ out = <<>>
    /\ \E op \in {"next_prime", "prev_prime"}, variant \in Variants,
          f \in {"None"} \cup CallerTesters, n \in (-MaxNeg)..MaxArg :
          /\ variant = "mod" => (op = "next_prime" /\ f = "None")
          /\ call = [op |-> op, variant |-> variant, n |-> n, isprime |-> f,
                     cand |-> n, pc |-> "call", exc |-> "", val |-> None, asked |-> {}]

NextPrimeCall ==
    /\ call.op = "next_prime" /\ call.pc = "call"
    /\ LET r == next_primeStart(call.n) IN
       call' = IF r.ret # None
               THEN [call EXCEPT !.pc = "done", !.val = r.ret]
               ELSE [call EXCEPT !.pc = "loop", !.cand = r.cand]
    /\ UNCHANGED <<gens, out>>

\* one test of: while not is_prime(n): n += 2; return n
NextPrimeLoop ==
    /\ call.op = "next_prime" /\ call.pc = "loop"
    /\ LET f == next_primeTester(call) IN
       call' = IF testerAccepts(f, call.cand)
               THEN [call EXCEPT !.pc = "done", !.val = Some(call.cand),
                                 !.asked = @ \cup {f}]
               ELSE [call EXCEPT !.cand = @ + 2, !.asked = @ \cup {f}]
    /\ UNCHANGED <<gens, out>>

PrevPrimeCall ==
    /\ call.op = "prev_prime" /\ call.pc = "call"
    /\ LET r == prev_primeStart(call.n) IN
       call' = IF r.exc # ""
               THEN [call EXCEPT !.pc = "raised", !.exc = r.exc]
               ELSE [call EXCEPT !.pc = "loop", !.cand = r.cand]
    /\ UNCHANGED <<gens, out>>

\* one test of: while not isprime(n): n -= 2; return n
PrevPrimeLoop ==
    /\ call.op = "prev_prime" /\ call.pc = "loop"
    /\ LET f == prev_primeTester(call) IN
       IF testerAccepts(f, call.cand)
       THEN call' = [call EXCEPT !.pc = "done", !.val = Some(call.cand),
                                 !.asked = @ \cup {f}]
       ELSE /\ call.cand - 2 >= -MaxDescent
            /\ call' = [call EXCEPT !.cand = @ - 2, !.asked = @ \cup {f}]
    /\ UNCHANGED <<gens, out>>

NextAdjacent == NextPrimeCall \/ NextPrimeLoop \/ PrevPrimeCall \/ PrevPrimeLoop

SpecAdjacent == InitAdjacent /\ [][NextAdjacent]_vars /\ WF_vars(NextAdjacent)

\* C6: for every n > 2, 3 included, prev_prime(n) ends and returns the largest
\* prime below n; so while it searches, the candidate has not gone below
\* that prime, and the value it returns is that prime
C6_PrevPrimeReturnsLargestBelow ==
    (call.op = "prev_prime" /\ call.isprime = "None" /\ call.n > 2) =>
        /\ call.pc = "loop" => \E q \in 2..call.cand : IsPrime(q)
        /\ call.pc = "done" =>
              /\ IsPrime(call.val[1]) /\ call.val[1] < call.n
              /\ \A m \in (call.val[1] + 1)..(call.n - 1) : ~IsPrime(m)
        /\ call.pc # "raised"

\* C7: for every integer n, next_prime(n) ends and returns the smallest prime
\* above n: a prime, greater than n, with no prime between n and it
C7_NextPrimeReturnsSmallestAbove ==
    (call.op = "next_prime" /\ call.isprime = "None" /\ call.pc = "call") ~>
        (/\ call.pc = "done" /\ call.exc = "" /\ call.val # None
         /\ IsPrime(call.val[1]) /\ call.val[1] > call.n
         /\ \A m \in (call.n + 1)..(call.val[1] - 1) : ~IsPrime(m))

\* next_prime has returned a prime found by the Miller-Rabin stage, after
\* rejecting candidates
C7_Witness ==
    /\ call.op = "next_prime" /\ call.isprime = "None" /\ call.pc = "done"
    /\ call.n = 367 /\ call.val = Some(373)

\* C8: for every n <= 2, prev_prime(n) raises ValueError, returns nothing and
\* asks no primality tester
C8_PrevPrimeRaisesAtTwo ==
    (call.op = "prev_prime" /\ call.n <= 2 /\ call.pc # "call") =>
        /\ call.pc = "raised" /\ call.exc = "ValueError"
        /\ call.val = None
        /\ call.asked = {}

\* prev_prime(2) has raised
C8_Witness ==
    /\ call.op = "prev_prime" /\ call.n = 2 /\ call.pc = "raised"

\* the odd (or, from an even n, next) candidates stepped through above n
NextCandidates(n, upto) == {m \in (n + 1)..upto : m % 2 = 1}

\* C9: with isprime = f given, every primality decision of the call is made
\* by f: next_prime returns the smallest candidate above n that f accepts,
\* prev_prime the largest below n, and no other tester is asked; with
\* isprime None only is_prime is asked
C9_SuppliedTesterDecides ==
    (call.op \in {"next_prime", "prev_prime"} /\ call.variant # "mod") =>
        /\ call.asked \subseteq {testerBound(call.isprime)}
        /\ (call.pc = "done" /\ call.isprime # "None" /\ call.op = "next_prime"
              /\ call.n >= 2) =>
              /\ testerAccepts(call.isprime, call.val[1])
              /\ \A m \in NextCandidates(call.n, call.val[1] - 1) :
                    ~testerAccepts(call.isprime, m)
        /\ (call.pc = "done" /\ call.isprime # "None" /\ call.op = "prev_prime") =>
              /\ testerAccepts(call.isprime, call.val[1])
              /\ call.val[1] < call.n
              /\ \A m \in (call.val[1] + 1)..(call.n - 1) :
                    m % 2 = 1 => ~testerAccepts(call.isprime, m)

(***************************************************************************)
(* factorise(n) and factors(n).  A factorise generator is its local n, the *)
(* prime iterator of its for loop (g) and the yield it is suspended at:    *)
(* "unit" is the yield (n, 1) for n in (0, 1, -1), "sign" the yield        *)
(* (-1, 1), "loop" the yield (p, count), "last" the final yield (n, 1).    *)
(***************************************************************************)
\* the bug of dividing p out once only
factoriseDivideOnce(n, p, count) ==
    IF n % p = 0 THEN <<n \div p, count + 1>> ELSE <<n, count>>

RECURSIVE factoriseDivide(_, _, _)
\* while n % p == 0: count += 1; n //= p      -- gives (n, count)
factoriseDivide(n, p, count) ==
    IF n % p = 0 THEN factoriseDivide(n \div p, p, count + 1) ELSE <<n, count>>

\* the bug of dropping the residual factor after the loop
factoriseTailDropped(n, g) ==
    [val |-> <<>>, exc |-> "StopIteration", n |-> n, g |-> g, pc |-> "stopped"]

\* if n != 1: yield (n, 1)
factoriseTail(n, g) ==
    IF n # 1
    THEN [val |-> <<n, 1>>, exc |-> "", n |-> n, g |-> g, pc |-> "last"]
    ELSE [val |-> <<>>, exc |-> "StopIteration", n |-> n, g |-> g, pc |-> "stopped"]

\* the bug of sieving on until the prime itself exceeds the residual
factoriseBreakLate(p, n) == p > n

\* if p*p > n: break
factoriseBreak(p, n) == p * p > n

RECURSIVE factoriseLoop(_, _)
\* for p in primes(): ... to the next yield or to the end of the generator
factoriseLoop(n, g) ==
    Only({ IF factoriseBreak(r.val, n) THEN factoriseTail(n, r.g)
           ELSE Only({ IF d[2] # 0
                       THEN [val |-> <<r.val, d[2]>>, exc |-> "", n |-> d[1], g |-> r.g,
                             pc |-> "loop"]
                       ELSE factoriseLoop(d[1], r.g)
                       : d \in {factoriseDivide(n, r.val, 0)} })
           : r \in {genNext(g)} })

RECURSIVE factoriseDraws(_, _)
\* the primes the for loop draws up to its next yield or its break: for each
\* the prime p, the residual n it met, whether n % p was evaluated, and the
\* residual it left
factoriseDraws(n, g) ==
    Only({ IF factoriseBreak(r.val, n)
           THEN <<[p |-> r.val, n |-> n, tested |-> FALSE, rest |-> n]>>
           ELSE Only({ <<[p |-> r.val, n |-> n, tested |-> TRUE, rest |-> d[1]]>>
                       \o (IF d[2] # 0 THEN <<>> ELSE factoriseDraws(d[1], r.g))
                       : d \in {factoriseDivide(n, r.val, 0)} })
           : r \in {genNext(g)} })

\* the bug of forgetting n = -n after the yield of (-1, 1)
factoriseNextKeepSign(f) ==
    IF f.pc = "fresh"
    THEN IF f.n \in {0, 1, -1}
         THEN [val |-> <<f.n, 1>>, exc |-> "", n |-> f.n, g |-> f.g, pc |-> "unit"]
         ELSE IF f.n < 0
         THEN [val |-> <<-1, 1>>, exc |-> "", n |-> f.n, g |-> f.g, pc |-> "sign"]
         ELSE factoriseLoop(f.n, genNew(best_sieve))
    ELSE IF f.pc = "sign" THEN factoriseLoop(f.n, genNew(best_sieve))
    ELSE IF f.pc = "loop" THEN factoriseLoop(f.n, f.g)
    ELSE [val |-> <<>>, exc |-> "StopIteration", n |-> f.n, g |-> f.g, pc |-> "stopped"]

\* one next() call on a factorise generator f = [n, g, pc]
factoriseNext(f) ==
    IF f.pc = "fresh"
    THEN IF f.n \in {0, 1, -1}
         THEN [val |-> <<f.n, 1>>, exc |-> "", n |-> f.n, g |-> f.g, pc |-> "unit"]
         ELSE IF f.n < 0
         THEN [val |-> <<-1, 1>>, exc |-> "", n |-> f.n, g |-> f.g, pc |-> "sign"]
         ELSE factoriseLoop(f.n, genNew(best_sieve))
    ELSE IF f.pc = "sign" THEN factoriseLoop(-f.n, genNew(best_sieve))
    ELSE IF f.pc = "loop" THEN factoriseLoop(f.n, f.g)
    ELSE [val |-> <<>>, exc |-> "StopIteration", n |-> f.n, g |-> f.g, pc |-> "stopped"]

RECURSIVE factorsFrom(_)
\* for p, count in factorise(n): result.extend([p]*count)
factorsFrom(f) ==
    Only({ IF r.exc # "" THEN <<>>
           ELSE [k \in 1..r.val[2] |-> r.val[1]]
                \o factorsFrom([n |-> r.n, g |-> r.g, pc |-> r.pc])
           : r \in {factoriseNext(f)} })

RECURSIVE factoriseListFrom(_)
\* the pairs a factorise generator yields from f on, as a list
factoriseListFrom(f) ==
    Only({ IF r.exc # "" THEN <<>>
           ELSE <<r.val>> \o factoriseListFrom([n |-> r.n, g |-> r.g, pc |-> r.pc])
           : r \in {factoriseNext(f)} })

\* list(factorise(n))
factoriseList(n) == factoriseListFrom([n |-> n, g |-> NoGen, pc |-> "fresh"])

\* factors(n)
factors(n) == factorsFrom([n |-> n, g |-> NoGen, pc |-> "fresh"])

(***************************************************************************)
(* SpecFactor: for one n, a factorise(n) generator consumed one next() at  *)
(* a time (its pairs collect in out[1]) and one call factors(n).           *)
(***************************************************************************)
InitFactor ==
    /\ gens = <<NoGen>>
    /\ out = <<<<>>>>
    /\ \E n \in (-MaxFactor)..MaxFactor :
          call = [op |-> "factorise", n0 |-> n, n |-> n, pc |-> "fresh", flat |-> None]

FactoriseNext ==
    /\ call.op = "factorise" /\ call.pc # "stopped"
    /\ LET r == factoriseNext([n |-> call.n, g |-> gens[1], pc |-> call.pc]) IN
       /\ call' = [call EXCEPT !.n = r.n, !.pc = r.pc]
       /\ gens' = <<r.g>>
       /\ out' = IF r.exc = "" THEN <<Append(out[1], r.val)>> ELSE out

FactorsCall ==
    /\ call.op = "factorise" /\ call.flat = None
    /\ call' = [call EXCEPT !.flat = Some(factors(call.n0))]
    /\ UNCHANGED <<gens, out>>

NextFactor == FactoriseNext \/ FactorsCall

SpecFactor == InitFactor /\ [][NextFactor]_vars

\* the consumer of the generator keeps calling next(), as list() and the
\* for loop of factors() do
SpecFactorLive == SpecFactor /\ WF_vars(FactoriseNext)

RECURSIVE SeqProduct(_)
\* the product of a list of integers
SeqProduct(s) == IF s = <<>> THEN 1 ELSE s[1] * SeqProduct(Tail(s))

RECURSIVE PairProduct(_)
\* the product of p^k over a list of pairs (p, k)
PairProduct(s) == IF s = <<>> THEN 1 ELSE (s[1][1] ^ s[1][2]) * PairProduct(Tail(s))

RECURSIVE CountUpTo(_, _)
\* the sum of the multiplicities of the first j pairs
CountUpTo(s, j) == IF j = 0 THEN 0 ELSE s[j][2] + CountUpTo(s, j - 1)

\* C10: the product of p^k over the pairs yielded by factorise(n) is n, and
\* factors(n) is those pairs flattened (p repeated k times, in order), so its
\* product is n too
C10_FactorProduct ==
    (call.op = "factorise" /\ call.pc = "stopped" /\ call.flat # None) =>
        LET pairs == out[1]
            fl == call.flat[1]
        IN  /\ PairProduct(pairs) = call.n0
            /\ Len(fl) = CountUpTo(pairs, Len(pairs))
            /\ \A j \in 1..Len(pairs) : \A k \in 1..pairs[j][2] :
                  fl[CountUpTo(pairs, j - 1) + k] = pairs[j][1]
            /\ SeqProduct(fl) = call.n0

\* a negative number with a repeated prime and a residual prime has been
\* factorised both ways
C10_Witness ==
    /\ call.op = "factorise" /\ call.pc = "stopped" /\ call.n0 = -44
    /\ out[1] = <<<<-1, 1>>, <<2, 2>>, <<11, 1>>>>
    /\ call.flat = Some(<<-1, 2, 2, 11>>)

\* C11: for n >= 2 the pairs factorise(n) has yielded so far have prime first
\* components in strictly increasing order and multiplicities >= 1; the
\* residual pair yielded after the loop is one of them
C11_FactorisePairsOrdered ==
    (call.op = "factorise" /\ call.n0 >= 2) =>
        LET pairs == out[1] IN
        /\ \A j \in 1..Len(pairs) : IsPrime(pairs[j][1]) /\ pairs[j][2] >= 1
        /\ \A j \in 1..(Len(pairs) - 1) : pairs[j][1] < pairs[j + 1][1]
        /\ call.pc = "last" =>
              /\ pairs[Len(pairs)] = <<call.n, 1>>
              /\ IsPrime(call.n)
              /\ \A j \in 1..(Len(pairs) - 1) : pairs[j][1] < call.n

\* a number with a repeated prime, a second prime and a residual has just
\* had its residual yielded
C11_Witness ==
    /\ call.op = "factorise" /\ call.n0 = 60 /\ call.pc = "last"
    /\ out[1] = <<<<2, 2>>, <<3, 1>>, <<5, 1>>>>

\* C12 as stated: every negative n, -1 included, yields (-1, 1) and then the
\* pairs of factorise(|n|); n in {0, 1} yields the single pair (n, 1)
C12_NegativeThenAbs ==
    (call.op = "factorise" /\ call.pc = "stopped") =>
        /\ call.n0 < 0 => out[1] = <<<<-1, 1>>>> \o factoriseList(-call.n0)
        /\ call.n0 \in {0, 1} => out[1] = <<<<call.n0, 1>>>>

\* C12 amended: every n <= -2 yields (-1, 1) and then the pairs of
\* factorise(|n|); n in {0, 1, -1} yields the single pair (n, 1)
C12_NegativeThenAbsBelowMinusOne ==
    (call.op = "factorise" /\ call.pc = "stopped") =>
        /\ call.n0 <= -2 => out[1] = <<<<-1, 1>>>> \o factoriseList(-call.n0)
        /\ call.n0 \in {0, 1, -1} => out[1] = <<<<call.n0, 1>>>>

\* factorise(-12) has run to its end
C12_Witness ==
    /\ call.op = "factorise" /\ call.pc = "stopped" /\ call.n0 = -12
    /\ out[1] = <<<<-1, 1>>, <<2, 2>>, <<3, 1>>>>
    /\ factoriseList(12) = <<<<2, 2>>, <<3, 1>>>>

(***************************************************************************)
(* SpecPrimality: one call of a primality test.  is_probable_prime(n), or  *)
(* one of the four tests that take bases: the package's                    *)
(* is_miller_rabin_probable_prime and is_fermat_probable_prime, and        *)
(* miller_rabin and fermat of pyprimes.py.  call.ret is None until the     *)
(* call has returned (val) or raised (exc).                                *)
(***************************************************************************)
BaseTests ==
    {"is_miller_rabin_probable_prime", "is_fermat_probable_prime", "miller_rabin", "fermat"}

BaseRange == (-1)..(MaxTested + 1)

\* base: one int (made a 1-tuple by the tests) or a tuple of ints
BaseTuples == {<<a>> : a \in BaseRange} \cup {<<a, b>> : a \in BaseRange, b \in BaseRange}

\* the flags a caller's prover returns: bools, ints, and values of other types
Flags ==
    {[type |-> "bool", val |-> v] : v \in 0..1}
    \cup {[type |-> "int", val |-> v] : v \in (-2)..4}
    \cup {[type |-> t, val |-> v] : t \in {"float", "str", "NoneType"}, v \in 0..2}

InitPrimality ==
    /\ gens = <<NoGen>>
    /\ out = <<<<>>>>
    /\ \/ \E n \in (-MaxNeg)..MaxProbable :
             call = [op |-> "is_probable_prime", n |-> n, base |-> <<>>, ret |-> None]
       \/ \E n \in (-MaxNeg)..MaxProbable :
             call = [op |-> "_check_primality", n |-> n, base |-> <<>>, name |-> "",
                     ran |-> 0, ret |-> None]
       \/ \E op \in BaseTests, n \in (-MaxNeg)..MaxTested, base \in BaseTuples :
             call = [op |-> op, n |-> n, base |-> base, ret |-> None]
       \/ \E n \in (-MaxNeg)..MaxTested :
             \/ \E a \in BaseRange :
                   call = [op |-> "_base_to_bases", n |-> n,
                           base |-> [type |-> "int", val |-> <<a>>], ret |-> None]
             \/ \E t \in BaseTuples :
                   call = [op |-> "_base_to_bases", n |-> n,
                           base |-> [type |-> "tuple", val |-> t], ret |-> None]
       \/ \E n \in (-MaxNeg)..MaxTested :
             \/ call = [op |-> "is_prime", n |-> n, base |-> <<>>, prover |-> "None",
                        flag |-> [type |-> "int", val |-> 0], ret |-> None]
             \/ \E f \in Flags :
                   call = [op |-> "is_prime", n |-> n, base |-> <<>>, prover |-> "caller",
                           flag |-> f, ret |-> None]
       \/ \E k \in 1..Len(CARMICHAEL_NUMBERS) :
             /\ CARMICHAEL_NUMBERS[k] <= MaxCarmichael
             /\ \E b \in 0..CARMICHAEL_NUMBERS[k] :
                   call = [op |-> "is_fermat_probable_prime", n |-> CARMICHAEL_NUMBERS[k],
                           base |-> <<b>>, ret |-> None]

IsProbablePrimeCall ==
    /\ call.op = "is_probable_prime" /\ call.ret = None
    /\ call' = [call EXCEPT !.ret = Some([exc |-> "", val |-> is_probable_prime(call.n)])]
    /\ UNCHANGED <<gens, out>>

MillerRabinProbableCall ==
    /\ call.op = "is_miller_rabin_probable_prime" /\ call.ret = None
    /\ call' = [call EXCEPT !.ret =
                   Some([exc |-> "", val |-> is_miller_rabin_probable_prime(call.n, call.base)])]
    /\ UNCHANGED <<gens, out>>

FermatProbableCall ==
    /\ call.op = "is_fermat_probable_prime" /\ call.ret = None
    /\ call' = [call EXCEPT !.ret =
                   Some([exc |-> "", val |-> is_fermat_probable_prime(call.n, call.base)])]
    /\ UNCHANGED <<gens, out>>

MillerRabinCall ==
    /\ call.op = "miller_rabin" /\ call.ret = None
    /\ call' = [call EXCEPT !.ret = Some(miller_rabin(call.n, call.base))]
    /\ UNCHANGED <<gens, out>>

FermatCall ==
    /\ call.op = "fermat" /\ call.ret = None
    /\ call' = [call EXCEPT !.ret = Some(fermat(call.n, call.base))]
    /\ UNCHANGED <<gens, out>>

\* is_prime(n, prover): the default prover is is_probable_prime, a caller's
\* prover returns call.flag
IsPrimeCall ==
    /\ call.op = "is_prime" /\ call.ret = None
    /\ LET flag == IF call.prover = "None"
                   THEN [type |-> "int", val |-> is_probable_prime(call.n)]
                   ELSE call.flag
           r == is_primeFlag(flag)
       IN  /\ call' = [call EXCEPT !.flag = flag,
                                   !.ret = Some([exc |-> r.exc, val |-> r.val])]
           /\ out' = IF r.warn THEN <<Append(out[1], "MaybeComposite")>> ELSE out
    /\ UNCHANGED gens

\* _check_primality(n): the flag, the name of the last method run and the
\* number of methods run
CheckPrimalityCall ==
    /\ call.op = "_check_primality" /\ call.ret = None
    /\ \E r \in _check_primality(call.n) :
          call' = [call EXCEPT !.name = r.name, !.ran = r.ran,
                               !.ret = Some([exc |-> "", val |-> r.flag])]
    /\ UNCHANGED <<gens, out>>

BaseToBasesCall ==
    /\ call.op = "_base_to_bases" /\ call.ret = None
    /\ call' = [call EXCEPT !.ret = Some(_base_to_bases(call.base, call.n))]
    /\ UNCHANGED <<gens, out>>

NextPrimality ==
    \/ IsProbablePrimeCall
    \/ BaseToBasesCall
    \/ CheckPrimalityCall
    \/ IsPrimeCall
    \/ MillerRabinProbableCall
    \/ FermatProbableCall
    \/ MillerRabinCall
    \/ FermatCall

SpecPrimality == InitPrimality /\ [][NextPrimality]_vars

\* C13: for every n in -MaxNeg..MaxProbable, is_probable_prime(n) is 1 when n
\* is prime and 0 when it is not, never 2, and so is_prime(n) is True exactly
\* for the primes
C13_ProbablePrimeExact ==
    (call.op = "is_probable_prime" /\ call.ret # None) =>
        /\ call.ret[1].exc = ""
        /\ call.ret[1].val = (IF IsPrime(call.n) THEN 1 ELSE 0)
        /\ is_prime(call.n) = IsPrime(call.n)

\* 2047 = 23 * 89, the first strong pseudoprime to base 2 and the first n
\* tested with the bases (2, 3), has been found composite
C13_Witness ==
    /\ call.op = "is_probable_prime" /\ call.n = 2047
    /\ call.ret = Some([exc |-> "", val |-> 0])

\* every base lies in [1, n-1]
ValidBases(base, n) == \A k \in 1..Len(base) : 1 <= base[k] /\ base[k] <= n - 1

RECURSIVE GCD(_, _)
\* the greatest common divisor of a >= 0 and b >= 0
GCD(a, b) == IF b = 0 THEN a ELSE GCD(b, a % b)

\* C14: no false negatives: for a prime n and bases all in [1, n-1], the
\* Miller-Rabin and Fermat tests of the package return a non-zero flag and
\* miller_rabin and fermat of pyprimes.py return True
C14_NoFalseNegatives ==
    (call.op \in BaseTests /\ call.ret # None /\ IsPrime(call.n)
        /\ ValidBases(call.base, call.n)) =>
        /\ call.ret[1].exc = ""
        /\ IF call.op \in {"miller_rabin", "fermat"}
           THEN call.ret[1].val = TRUE
           ELSE call.ret[1].val # 0

\* the prime 13 has passed the package's Miller-Rabin test to the bases 2 and 5
C14_Witness ==
    /\ call.op = "is_miller_rabin_probable_prime" /\ call.n = 13 /\ call.base = <<2, 5>>
    /\ call.ret = Some([exc |-> "", val |-> 2])

C16_InvalidBaseRaises ==
    (call.op \in {"is_miller_rabin_probable_prime", "is_fermat_probable_prime"}
        /\ call.ret # None /\ ~ValidBases(call.base, call.n)) =>
        call.ret[1].exc # ""

\* C17: is_prime(n, prover) is False for the flags 0 and False, True for 1,
\* True and 2; the flag 2, and no other, also emits MaybeComposite; another
\* int flag raises ValueError and a flag of another type raises TypeError
C17_IsPrimeFlag ==
    (call.op = "is_prime" /\ call.ret # None) =>
        LET f == call.flag
            r == call.ret[1]
        IN  /\ (f.type \in {"bool", "int"} /\ f.val = 0) => r = [exc |-> "", val |-> FALSE]
            /\ ((f.type = "bool" /\ f.val = 1) \/ (f.type = "int" /\ f.val \in {1, 2}))
                  => r = [exc |-> "", val |-> TRUE]
            /\ out[1] = IF f.type = "int" /\ f.val = 2 THEN <<"MaybeComposite">> ELSE <<>>
            /\ (f.type = "int" /\ f.val \notin {0, 1, 2}) => r.exc = "ValueError"
            /\ f.type \notin {"bool", "int"} => r.exc = "TypeError"

\* a caller's prover has returned 2: the advisory is out and the result is True
C17_Witness ==
    /\ call.op = "is_prime" /\ call.prover = "caller"
    /\ call.flag = [type |-> "int", val |-> 2]
    /\ call.ret = Some([exc |-> "", val |-> TRUE])
    /\ out[1] = <<"MaybeComposite">>

(***************************************************************************)
(* The number theory convenience functions.  They read primes from         *)
(* primes(...): in the packages ("pkg", "pkg2") the wrapper generator      *)
(* primes(start, end, strategy), in pyprimes.py ("mod") the generator      *)
(* croft itself.  A stream is the wrapper's record w and the underlying    *)
(* generator g.                                                            *)
(***************************************************************************)
\* primes(end=end, strategy=strategy) in the packages, primes() in pyprimes.py
streamNew(variant, end, strategy) ==
    [w |-> [op |-> "primes", variant |-> variant,
            start |-> IF variant = "pkg2" THEN Some(0) ELSE None,
            end |-> end, strategy |-> strategy, p |-> 0, pc |-> "fresh"],
     g |-> IF variant = "mod" THEN genNew(best_sieve) ELSE NoGen]

\* next() on a stream
streamNext(s) ==
    IF s.w.variant = "mod"
    THEN Only({ [val |-> r.val, exc |-> r.exc, s |-> [w |-> s.w, g |-> r.g]]
                : r \in {genNext(s.g)} })
    ELSE Only({ [val |-> r.val, exc |-> r.exc, s |-> [w |-> r.w, g |-> r.g]]
                : r \in {primesNext(s.w, s.g)} })

RECURSIVE streamSkip(_, _)
\* the stream after k more values have been drawn from it, as islice does to
\* reach its start: the first half of them, then the rest
streamSkip(s, k) ==
    IF k = 0 THEN s
    ELSE IF k = 1 THEN streamNext(s).s
    ELSE Only({ streamSkip(h, k - k \div 2) : h \in {streamSkip(s, k \div 2)} })

\* the bug of counting the primes from 0: islice(primes(), n, n+1)
nth_primeFromZeroBased(s, k) == streamNext(streamSkip(s, k))

\* next(itertools.islice(primes(...), n-1, n)): the k-th value from s on
nth_primeFrom(s, k) == streamNext(streamSkip(s, k - 1))

\* nth_prime(n, strategy); g is the generator the call leaves behind
nth_prime(variant, n, strategy) ==
    IF n < 1 THEN [exc |-> "ValueError", val |-> 0, g |-> NoGen]
    ELSE Only({ [exc |-> "", val |-> r.val, g |-> r.s.g]
                : r \in {nth_primeFrom(streamNew(variant, None, strategy), n)} })

RECURSIVE prime_countFrom(_, _)
\* sum(1 for p in ...)
prime_countFrom(s, count) ==
    Only({ IF r.exc # "" THEN count ELSE prime_countFrom(r.s, count + 1)
           : r \in {streamNext(s)} })

\* the bug of counting the primes below n only: primes(end=n)
prime_countEndExclusive(variant, n, strategy) ==
    IF variant = "mod" THEN Len(primes_below(n - 1))
    ELSE IF n < 1 THEN 0
    ELSE prime_countFrom(streamNew(variant, Some(n), strategy), 0)

\* prime_count(n, strategy) of the packages: sum(1 for p in primes(end=n+1));
\* prime_count(x) of pyprimes.py: sum(1 for p in primes_below(x))
prime_count(variant, n, strategy) ==
    IF variant = "mod" THEN Len(primes_below(n))
    ELSE IF n < 1 THEN 0
    ELSE prime_countFrom(streamNew(variant, Some(n + 1), strategy), 0)

RECURSIVE prime_sumFrom(_, _, _)
\* sum(itertools.islice(primes(...), k))
prime_sumFrom(s, k, total) ==
    IF k = 0 THEN total
    ELSE Only({ IF r.exc # "" THEN total ELSE prime_sumFrom(r.s, k - 1, total + r.val)
                : r \in {streamNext(s)} })

\* prime_sum(n, strategy)
prime_sum(variant, n, strategy) ==
    IF n < 1 THEN 0 ELSE prime_sumFrom(streamNew(variant, None, strategy), n, 0)

\* the bug of adding before the yield: n += p; yield n
prime_partial_sumsNextAddFirst(c, s) ==
    Only({ [val |-> c.n + r.val, exc |-> r.exc, n |-> c.n + r.val, p |-> r.val, s |-> r.s]
           : r \in {streamNext(IF c.pc = "fresh"
                               THEN streamNew(c.variant, None, c.strategy) ELSE s)} })

\* one next() call on prime_partial_sums(strategy): n = 0; for p in
\* primes(...): yield n; n += p.   c holds the locals n and p
prime_partial_sumsNext(c, s) ==
    IF c.pc = "fresh"
    THEN Only({ [val |-> 0, exc |-> r.exc, n |-> 0, p |-> r.val, s |-> r.s]
                : r \in {streamNext(streamNew(c.variant, None, c.strategy))} })
    ELSE Only({ [val |-> c.n + c.p, exc |-> r.exc, n |-> c.n + c.p, p |-> r.val, s |-> r.s]
                : r \in {streamNext(s)} })

(***************************************************************************)
(* SpecNumber: one call nth_prime(n), prime_count(n) or prime_sum(n), or   *)
(* one generator prime_partial_sums() advanced by next().                  *)
(***************************************************************************)
\* the variant and the strategy argument of a call: pyprimes.py has no strategy
Callers ==
    {<<v, st>> : v \in {"pkg", "pkg2"}, st \in Strategies \cup {"None"}} \cup {<<"mod", "None">>}

InitNumber ==
    /\ gens = <<NoGen>>
    /\ out = <<<<>>>>
    /\ \/ \E c \in Callers, n \in (-MaxNeg)..MaxNth :
             call = [op |-> "nth_prime", variant |-> c[1], strategy |-> c[2], n |-> n,
                     ret |-> None]
       \/ \E c \in Callers, n \in (-MaxNeg)..MaxCount :
             call = [op |-> "prime_count", variant |-> c[1], strategy |-> c[2], n |-> n,
                     ret |-> None]
       \/ \E c \in Callers, n \in (-MaxNeg)..MaxSums :
             /\ c[1] # "mod"
             /\ call = [op |-> "prime_sum", variant |-> c[1], strategy |-> c[2], n |-> n,
                        ret |-> None]
       \/ \E c \in Callers :
             /\ c[1] # "mod"
             /\ call = [op |-> "prime_partial_sums", variant |-> c[1], strategy |-> c[2],
                        n |-> 0, p |-> 0, w |-> streamNew(c[1], None, c[2]).w, pc |-> "fresh"]

NthPrimeCall ==
    /\ call.op = "nth_prime" /\ call.ret = None
    /\ LET r == nth_prime(call.variant, call.n, call.strategy) IN
       /\ call' = [call EXCEPT !.ret = Some([exc |-> r.exc, val |-> r.val])]
       /\ gens' = <<r.g>>
    /\ UNCHANGED out

PrimeCountCall ==
    /\ call.op = "prime_count" /\ call.ret = None
    /\ call' = [call EXCEPT !.ret =
                   Some([exc |-> "", val |-> prime_count(call.variant, call.n, call.strategy)])]
    /\ UNCHANGED <<gens, out>>

PrimeSumCall ==
    /\ call.op = "prime_sum" /\ call.ret = None
    /\ call' = [call EXCEPT !.ret =
                   Some([exc |-> "", val |-> prime_sum(call.variant, call.n, call.strategy)])]
    /\ UNCHANGED <<gens, out>>

PartialSumsNext ==
    /\ call.op = "prime_partial_sums" /\ Len(out[1]) <= MaxSums
    /\ LET r == prime_partial_sumsNext(call, [w |-> call.w, g |-> gens[1]]) IN
       /\ call' = [call EXCEPT !.n = r.n, !.p = r.p, !.w = r.s.w, !.pc = "yielded"]
       /\ gens' = <<r.s.g>>
       /\ out' = IF r.exc = "" THEN <<Append(out[1], r.val)>> ELSE out

NextNumber == NthPrimeCall \/ PrimeCountCall \/ PrimeSumCall \/ PartialSumsNext

SpecNumber == InitNumber /\ [][NextNumber]_vars

RECURSIVE NthPrimeFrom(_, _)
\* the k-th prime among c, c+1, ...
NthPrimeFrom(k, c) ==
    IF IsPrime(c) THEN (IF k = 1 THEN c ELSE NthPrimeFrom(k - 1, c + 1))
    ELSE NthPrimeFrom(k, c + 1)

\* the k-th prime, counting from 1
NthPrime(k) == NthPrimeFrom(k, 2)

\* the number of primes p <= n
PrimePi(n) == Cardinality({q \in 2..n : IsPrime(q)})

RECURSIVE SumFirstPrimes(_)
\* the sum of the first k primes
SumFirstPrimes(k) == IF k < 1 THEN 0 ELSE NthPrime(k) + SumFirstPrimes(k - 1)

\* C18: nth_prime(n) is the n-th prime counting from 1 for n >= 1, whatever
\* strategy is passed, and for n < 1 raises ValueError with no prime drawn
C18_NthPrime ==
    (call.op = "nth_prime" /\ call.ret # None) =>
        IF call.n >= 1
        THEN call.ret = Some([exc |-> "", val |-> NthPrime(call.n)])
        ELSE call.ret[1].exc = "ValueError" /\ gens = <<NoGen>>

\* nth_prime(50, wheel) of the package has returned 229
C18_Witness ==
    /\ call.op = "nth_prime" /\ call.n = 50
    /\ call.variant = "pkg" /\ call.strategy = "wheel"
    /\ call.ret = Some([exc |-> "", val |-> 229])

characteristicGap(c, s, left) ==
    IF left > 0
    THEN [val |-> FALSE, exc |-> "", c |-> [c EXCEPT !.i = left - 1, !.pc = "gap"], s |-> s]
    ELSE [val |-> TRUE, exc |-> "", c |-> [c EXCEPT !.q = c.p[1], !.i = 0, !.pc = "prime"],
          s |-> s]

\* the yield of the loop after the primes, or the end of the generator
characteristicTail(c, s, left) ==
    IF left > 0
    THEN [val |-> FALSE, exc |-> "", c |-> [c EXCEPT !.i = left - 1, !.pc = "tail"], s |-> s]
    ELSE [val |-> FALSE, exc |-> "StopIteration", c |-> [c EXCEPT !.pc = "stopped"], s |-> s]

\* for p in primes(start, end, strategy): the next p, or the code after the loop
characteristicLoop(c, s) ==
    Only({ IF r.exc = ""
           THEN characteristicGap([c EXCEPT !.p = Some(r.val)], r.s, r.val - c.q - 1)
           ELSE IF c.end = None
           THEN [val |-> FALSE, exc |-> "StopIteration", c |-> [c EXCEPT !.pc = "stopped"],
                 s |-> r.s]
           ELSE IF c.p = None
           THEN [val |-> FALSE, exc |-> "UnboundLocalError",
                 c |-> [c EXCEPT !.pc = "stopped"], s |-> r.s]
           ELSE characteristicTail(c, r.s, c.end[1] - c.p[1] - 1)
           : r \in {streamNext(s)} })

\* one next() call on the generator
characteristicNext(c, s) ==
    IF c.pc = "fresh" THEN characteristicLoop([c EXCEPT !.q = c.start], s)
    ELSE IF c.pc = "gap" THEN characteristicGap(c, s, c.i)
    ELSE IF c.pc = "prime" THEN characteristicLoop(c, s)
    ELSE IF c.pc = "tail" THEN characteristicTail(c, s, c.i)
    ELSE [val |-> FALSE, exc |-> "StopIteration", c |-> c, s |-> s]

(***************************************************************************)
(* checked_oddints() and checked_ints() of pyprimes.py.  A checked_oddints *)
(* generator o holds the locals prev, p and i, the iterator odd_primes (g) *)
(* and the yield it is suspended at: "one" the yield (False, 1), "gap" the *)
(* yield (False, i), "prime" the yield (True, p).                          *)
(***************************************************************************)
checked_oddintsFresh == [pc |-> "fresh", prev |-> 0, p |-> 0, i |-> 0, g |-> NoGen]

\* the bug of stepping the non-primes by 4
checked_oddintsScanSparse(o, i) ==
    IF i >= o.p
    THEN [val |-> <<TRUE, o.p>>, exc |-> "", o |-> [o EXCEPT !.prev = o.p, !.pc = "prime"]]
    ELSE [val |-> <<FALSE, i>>, exc |-> "", o |-> [o EXCEPT !.i = i + 2, !.pc = "gap"]]

\* for i in islice(count(prev + 2), 0, None, 2): if i >= p: break; yield
\* (False, i)  -- and after the loop yield (True, p); prev = p
checked_oddintsScan(o, i) ==
    IF i >= o.p
    THEN [val |-> <<TRUE, o.p>>, exc |-> "", o |-> [o EXCEPT !.prev = o.p, !.pc = "prime"]]
    ELSE [val |-> <<FALSE, i>>, exc |-> "", o |-> [o EXCEPT !.i = i, !.pc = "gap"]]

\* for p in odd_primes: the next p and the start of its inner loop
checked_oddintsLoop(o) ==
    Only({ checked_oddintsScan([o EXCEPT !.p = r.val, !.g = r.g], o.prev + 2)
           : r \in {genNext(o.g)} })

\* one next() call on checked_oddints()
checked_oddintsNext(o) ==
    IF o.pc = "fresh"
    THEN [val |-> <<FALSE, 1>>, exc |-> "", o |-> [o EXCEPT !.pc = "one"]]
    ELSE IF o.pc = "one"
    THEN checked_oddintsLoop([o EXCEPT !.g = genNext(genNew(best_sieve)).g, !.prev = 1])
    ELSE IF o.pc = "gap" THEN checked_oddintsScan(o, o.i + 2)
    ELSE checked_oddintsLoop(o)

\* checked_ints(): oddnums is the checked_oddints generator, t the item of
\* the for loop; "zero", "first", "two", "odd" and "even" are its five yields
checked_intsFresh == [pc |-> "fresh", t |-> <<FALSE, 0>>, oddnums |-> checked_oddintsFresh]

\* one next() call on checked_ints()
checked_intsNext(c) ==
    IF c.pc = "fresh" THEN [val |-> <<FALSE, 0>>, exc |-> "", c |-> [c EXCEPT !.pc = "zero"]]
    ELSE IF c.pc = "first" THEN [val |-> <<TRUE, 2>>, exc |-> "", c |-> [c EXCEPT !.pc = "two"]]
    ELSE IF c.pc \in {"zero", "two", "even"}
    THEN Only({ [val |-> r.val, exc |-> "",
                 c |-> [c EXCEPT !.t = r.val, !.oddnums = r.o,
                                 !.pc = IF c.pc = "zero" THEN "first" ELSE "odd"]]
                : r \in {checked_oddintsNext(c.oddnums)} })
    ELSE [val |-> <<FALSE, c.t[2] + 1>>, exc |-> "", c |-> [c EXCEPT !.pc = "even"]]

(***************************************************************************)
(* SpecFlags: one generator characteristic(start, end, strategy),          *)
(* checked_ints() or checked_oddints(), advanced by next(); the items it   *)
(* yields collect in out[1].                                               *)
(***************************************************************************)
InitFlags ==
    /\ gens = <<NoGen>>
    /\ out = <<<<>>>>
    /\ \/ \E start \in {None} \cup {Some(v) : v \in (-MaxNeg)..MaxStart},
             end \in {None} \cup {Some(v) : v \in (-MaxNeg)..MaxEnd},
             strategy \in Strategies \cup {"None"} :
             LET first == IF start = None THEN 0 ELSE start[1] IN
             call = [op |-> "characteristic", start |-> first, end |-> end,
                     strategy |-> strategy, q |-> 0, p |-> None, i |-> 0, pc |-> "fresh",
                     exc |-> "",
                     w |-> [op |-> "primes", variant |-> "pkg", start |-> Some(first),
                            end |-> end, strategy |-> strategy, p |-> 0, pc |-> "fresh"]]
       \/ call = [op |-> "checked_ints", c |-> checked_intsFresh]
       \/ call = [op |-> "checked_oddints", c |-> checked_oddintsFresh]

CharacteristicNext ==
    /\ call.op = "characteristic" /\ call.pc # "stopped"
    /\ Len(out[1]) < MaxFlags
    /\ LET r == characteristicNext(call, [w |-> call.w, g |-> gens[1]]) IN
       /\ call' = [r.c EXCEPT !.w = r.s.w, !.exc = r.exc]
       /\ gens' = <<r.s.g>>
       /\ out' = IF r.exc = "" THEN <<Append(out[1], r.val)>> ELSE out

CheckedIntsNext ==
    /\ call.op = "checked_ints"
    /\ Len(out[1]) < MaxFlags
    /\ LET r == checked_intsNext(call.c) IN
       /\ call' = [call EXCEPT !.c = r.c]
       /\ out' = <<Append(out[1], r.val)>>
    /\ UNCHANGED gens

CheckedOddintsNext ==
    /\ call.op = "checked_oddints"
    /\ Len(out[1]) < MaxFlags
    /\ LET r == checked_oddintsNext(call.c) IN
       /\ call' = [call EXCEPT !.c = r.o]
       /\ out' = <<Append(out[1], r.val)>>
    /\ UNCHANGED gens

NextFlags == CharacteristicNext \/ CheckedIntsNext \/ CheckedOddintsNext

SpecFlags == InitFlags /\ [][NextFlags]_vars

\* C21: characteristic(start, end) yields one flag for each integer from start
\* to end - 1, in order, True exactly for the primes, whether or not start is
\* prime: end - start flags in all
C21_CharacteristicFlags ==
    call.op = "characteristic" =>
        /\ \A j \in 1..Len(out[1]) : out[1][j] = IsPrime(call.start + j - 1)
        /\ call.pc = "stopped" =>
              /\ call.exc = "StopIteration"
              /\ (call.end # None /\ call.end[1] >= call.start)
                    => Len(out[1]) = call.end[1] - call.start

C23_PipelineOrder ==
    (call.op = "_check_primality" /\ call.ret # None) =>
        /\ call.ran \in 1..5
        /\ call.name = <<"_simple", "_trial_division", "_determistic_miller_rabin",
                         "_prime_miller_rabin", "_randomized_miller_rabin">>[call.ran]
        /\ \A k \in 1..(call.ran - 1) : methodFlags(k, call.n) = {2}
        /\ call.ret[1].val \in methodFlags(call.ran, call.n)
        /\ call.ret[1].val \in {0, 1} \/ call.ran = 5
        /\ (call.ran >= 4 \/ call.ret[1].val = 2)
              => ~Below(call.n, <<3, 825123056, 546413051>>)

\* 367, the first prime trial division leaves undecided, was decided by the
\* third stage
C23_Witness ==
    /\ call.op = "_check_primality" /\ call.n = 367
    /\ call.name = "_determistic_miller_rabin" /\ call.ran = 3
    /\ call.ret = Some([exc |-> "", val |-> 1])

\* C24: _base_to_bases(base, n) returns the bases as a tuple when each is in
\* [1, n-1] and raises ValueError otherwise; fermat and miller_rabin of
\* pyprimes.py return no verdict when a base is out of range
C24_BasesValidated ==
    /\ (call.op = "_base_to_bases" /\ call.ret # None) =>
          IF ValidBases(call.base.val, call.n)
          THEN call.ret = Some([exc |-> "", val |-> call.base.val])
          ELSE call.ret[1].exc = "ValueError"
    /\ (call.op \in {"miller_rabin", "fermat"} /\ call.ret # None
          /\ ~ValidBases(call.base, call.n)) =>
          call.ret = Some([exc |-> "ValueError", val |-> FALSE])

\* miller_rabin(9, (2, 9)) has raised ValueError
C24_Witness ==
    /\ call.op = "miller_rabin" /\ call.n = 9 /\ call.base = <<2, 9>>
    /\ call.ret = Some([exc |-> "ValueError", val |-> FALSE])

\* C25: with the default base 2, fermat(n) and miller_rabin(n) of pyprimes.py
\* return False for every n < 2 and True for n = 2, without an exception
C25_EdgeCasesByBranch ==
    (call.op \in {"miller_rabin", "fermat"} /\ call.base = <<2>> /\ call.ret # None) =>
        /\ call.n < 2 => call.ret = Some([exc |-> "", val |-> FALSE])
        /\ call.n = 2 => call.ret = Some([exc |-> "", val |-> TRUE])

(***************************************************************************)
(* The generator functions of pyprimes.py that validate their argument:    *)
(* factorise(x), primes_above(x), primes_below(x).  An argument is its     *)
(* Python type and value: an int v, the float v + 0.5, inf, nan, a str or  *)
(* None.  Calling a generator function returns a generator and runs none   *)
(* of its body; the body runs from its start at the first next().          *)
(***************************************************************************)
Arguments ==
    {[type |-> "int", val |-> v] : v \in (-MaxNeg)..MaxStart}
    \cup {[type |-> "float", val |-> v] : v \in (-MaxNeg)..MaxStart}
    \cup {[type |-> t, val |-> 0] : t \in {"inf", "nan", "str", "NoneType"}}

\* _validate_int(obj): m = int(obj + 0); if obj != m: raise ValueError
_validate_int(obj) ==
    CASE obj.type \in {"str", "NoneType"} -> "TypeError"
      [] obj.type = "inf" -> "OverflowError"
      [] obj.type \in {"nan", "float"} -> "ValueError"
      [] obj.type = "int" -> ""

\* _validate_num(obj): m = obj + 0; if not isfinite(m): raise ValueError
_validate_num(obj) ==
    CASE obj.type \in {"str", "NoneType"} -> "TypeError"
      [] obj.type \in {"inf", "nan"} -> "ValueError"
      [] obj.type \in {"int", "float"} -> ""

\* the validation at the top of the body of fn
validate(fn, x) == IF fn = "factorise" THEN _validate_int(x) ELSE _validate_num(x)

RECURSIVE primes_aboveDrop(_, _, _)
\* while p <= x: p = next(it)     (p <= v + 0.5 is p <= v)
primes_aboveDrop(g, p, x) ==
    IF p <= x.val
    THEN Only({ primes_aboveDrop(r.g, r.val, x) : r \in {genNext(g)} })
    ELSE [val |-> p, exc |-> "", g |-> g]

\* the body of primes_above(x) after its validation, to the next yield
primes_aboveNext(first, g, x) ==
    IF first
    THEN Only({ primes_aboveDrop(r.g, r.val, x) : r \in {genNext(genNew(best_sieve))} })
    ELSE genNext(g)

\* the body of primes_below(x) after its validation, to the next yield
primes_belowNext(first, g, x) ==
    Only({ IF r.val > x.val THEN [val |-> 0, exc |-> "StopIteration", g |-> r.g] ELSE r
           : r \in {genNext(IF first THEN genNew(best_sieve) ELSE g)} })

(***************************************************************************)
(* SpecLazy: it = fn(x), then next(it) until it raises or MaxRange items.  *)
(* call.pc is "none" before the call, "created" when the call has returned *)
(* the generator, then "running"; call.exc is the exception raised so far. *)
(***************************************************************************)
InitLazy ==
    /\ gens = <<NoGen>>
    /\ out = <<<<>>>>
    /\ \E fn \in {"factorise", "primes_above", "primes_below"}, x \in Arguments :
          call = [op |-> "lazy", fn |-> fn, x |-> x, pc |-> "none", exc |-> "",
                  f |-> [n |-> x.val, pc |-> "fresh"]]

LazyCall ==
    /\ call.op = "lazy" /\ call.pc = "none"
    /\ call' = [call EXCEPT !.pc = "created"]
    /\ UNCHANGED <<gens, out>>

LazyNext ==
    /\ call.op = "lazy" /\ call.pc \in {"created", "running"} /\ call.exc = ""
    /\ Len(out[1]) < MaxRange
    /\ IF call.pc = "created" /\ validate(call.fn, call.x) # ""
       THEN /\ call' = [call EXCEPT !.pc = "running", !.exc = validate(call.fn, call.x)]
            /\ UNCHANGED <<gens, out>>
       ELSE IF call.fn = "factorise"
       THEN LET r == factoriseNext([n |-> call.f.n, g |-> gens[1], pc |-> call.f.pc]) IN
            /\ call' = [call EXCEPT !.pc = "running", !.exc = r.exc,
                                    !.f = [n |-> r.n, pc |-> r.pc]]
            /\ gens' = <<r.g>>
            /\ out' = IF r.exc = "" THEN <<Append(out[1], r.val)>> ELSE out
       ELSE LET r == IF call.fn = "primes_above"
                     THEN primes_aboveNext(call.pc = "created", gens[1], call.x)
                     ELSE primes_belowNext(call.pc = "created", gens[1], call.x)
            IN  /\ call' = [call EXCEPT !.pc = "running", !.exc = r.exc]
                /\ gens' = <<r.g>>
                /\ out' = IF r.exc = "" THEN <<Append(out[1], r.val)>> ELSE out

NextLazy == LazyCall \/ LazyNext

SpecLazy == InitLazy /\ [][NextLazy]_vars

\* C26: factorise(x), primes_above(x) and primes_below(x) raise the validation
\* error at the call, before any element is requested: once the call is over,
\* an argument that fails the validation has raised
C26_InvalidArgumentAtCall ==
    (call.op = "lazy" /\ call.pc # "none"
        /\ (call.x.type \in {"str", "NoneType", "inf", "nan"}
            \/ (call.fn = "factorise" /\ call.x.type = "float"))) =>
        call.exc \in {"TypeError", "ValueError", "OverflowError"}

\* the table of sieve() as the claim describes it when candidate i is
\* examined: one entry for every prime p with p*p <= i, every entry key -> p
\* with p prime, p dividing key and key >= i, at most one entry of a prime
\* whose square exceeds i, and i among the keys exactly when it is composite
SieveTableOk(i, table) ==
    /\ \A p \in 2..i :
          (IsPrime(p) /\ p * p <= i)
             => Cardinality({key \in DOMAIN table : table[key] = p}) = 1
    /\ \A key \in DOMAIN table :
          IsPrime(table[key]) /\ key % table[key] = 0 /\ key >= i
    /\ Cardinality({key \in DOMAIN table : table[key] * table[key] > i}) <= 1
    /\ (i \in DOMAIN table) = ~IsPrime(i)

\* C27: whenever sieve() examines a candidate i, its table is as SieveTableOk
\* says: this holds of every candidate the next next() call will examine
C27_SieveTable ==
    \A s \in DOMAIN gens :
        gens[s].kind = "sieve" =>
            LET ex == sieveExamined(sieveResume(gens[s].st.levels, 1), 1) IN
            \A e \in 1..Len(ex) : SieveTableOk(ex[e].i, ex[e].table)

\* sieve() has yielded 2 .. 29 and is about to examine 30 with the entries
\* of 2, 3 and 5 and the entry 49 -> 7 of the prime ahead
C27_Witness ==
    /\ gens[1].kind = "sieve" /\ Len(out[1]) = 10 /\ out[1][10] = 29
    /\ LET ex == sieveExamined(sieveResume(gens[1].st.levels, 1), 1) IN
       /\ ex[1].i = 30
       /\ ex[1].table = DictPut(DictPut(DictPut(DictPut(EmptyDict, 30, 5), 32, 2), 33, 3), 49, 7)
       /\ Len(ex) = 2 /\ ex[2].i = 31

\* the smallest prime above p
PrimeAfter(p) ==
    CHOOSE q \in (p + 1)..(2 * p + 2) :
        IsPrime(q) /\ \A m \in (p + 1)..(q - 1) : ~IsPrime(m)

\* the next next() call of the factorise generator runs the for loop
factoriseInLoop ==
    /\ call.op = "factorise"
    /\ \/ call.pc = "fresh" /\ call.n >= 2
       \/ call.pc = "sign"
       \/ call.pc = "loop"

\* what the for loop does on the next next() call: the primes drawn are the
\* primes in order, continuing after the prime of the last pair; every draw
\* but the last has p*p <= residual and leaves a residual p does not divide;
\* the last either has p*p > residual and is not tested, or is divided out
\* completely and yielded
C28_DrawsOk ==
    factoriseInLoop =>
        LET n == IF call.pc = "sign" THEN -call.n ELSE call.n
            g == IF call.pc = "loop" THEN gens[1] ELSE genNew(best_sieve)
            prev == IF call.pc = "loop" THEN out[1][Len(out[1])][1] ELSE 1
            dr == factoriseDraws(n, g)
            last == dr[Len(dr)]
            r == factoriseNext([n |-> call.n, g |-> gens[1], pc |-> call.pc])
        IN  /\ Len(dr) >= 1 /\ dr[1].n = n /\ dr[1].p = PrimeAfter(prev)
            /\ \A j \in 1..(Len(dr) - 1) :
                  /\ dr[j + 1].p = PrimeAfter(dr[j].p)
                  /\ dr[j + 1].n = dr[j].rest
                  /\ dr[j].p * dr[j].p <= dr[j].n
            /\ \A j \in 1..Len(dr) :
                  /\ dr[j].tested = (dr[j].p * dr[j].p <= dr[j].n)
                  /\ dr[j].tested => dr[j].rest % dr[j].p # 0
                  /\ \E k \in 0..dr[j].n : dr[j].rest * (dr[j].p ^ k) = dr[j].n
                  /\ ~dr[j].tested => dr[j].rest = dr[j].n
            /\ r.n = last.rest
            /\ last.tested => r.exc = "" /\ r.val[1] = last.p
            /\ ~last.tested => r.pc \in {"last", "stopped"}

\* C28: factorise(n) terminates for every integer n, and for n >= 2 its for
\* loop draws the primes in order up to the first prime whose square exceeds
\* the residual, does not test that prime, and divides every earlier drawn
\* prime out completely before the next draw
C28_FactoriseTerminates ==
    /\ []C28_DrawsOk
    /\ <>(call.op = "factorise" /\ call.pc = "stopped")

\* factorise(35) has drawn 2, 3 and 5 and yielded (5, 1); its next draw is
\* 7, whose square exceeds the residual 7, so 7 is not tested
C28_Witness ==
    /\ call.op = "factorise" /\ call.n0 = 35 /\ call.pc = "loop" /\ call.n = 7
    /\ out[1] = <<<<5, 1>>>>
    /\ factoriseDraws(35, genNew(best_sieve))
          = << [p |-> 2, n |-> 35, tested |-> TRUE, rest |-> 35],
               [p |-> 3, n |-> 35, tested |-> TRUE, rest |-> 35],
               [p |-> 5, n |-> 35, tested |-> TRUE, rest |-> 7] >>
    /\ factoriseDraws(7, gens[1]) = <<[p |-> 7, n |-> 7, tested |-> FALSE, rest |-> 7]>>

RECURSIVE wheelExamined(_, _, _)
\* the candidates the loop over cycle(spokes) examines up to its next yield
\* or its RuntimeError, each with the outcome of the scan of found
wheelExamined(found, i0, k) ==
    LET i == i0 + spokes[(k % Len(spokes)) + 1]
        verdict == wheelScan(found, i, 1)
    IN  <<[i |-> i, verdict |-> verdict]>>
        \o (IF verdict = "composite" THEN wheelExamined(found, i, k + 1) ELSE <<>>)

\* found as the loop over cycle(spokes) meets it when st is resumed
wheelFound(st) == IF st.k = 0 THEN <<<<11, 121>>>> ELSE st.found

\* C29: in wheel() the RuntimeError of the for-else is never raised: every
\* candidate examined is coprime to 210 and the scan of found reaches a
\* stored prime that divides it or a stored prime whose square exceeds it
C29_WheelNeverExhausted ==
    \A s \in DOMAIN gens :
        gens[s].kind = "wheel" =>
            /\ genNext(gens[s]).exc = ""
            /\ gens[s].st.pc = Len(wheelSmall) =>
                  LET found == wheelFound(gens[s].st)
                      ex == wheelExamined(found, gens[s].st.i, gens[s].st.k)
                  IN  \A e \in 1..Len(ex) :
                         /\ GCD(ex[e].i, 210) = 1
                         /\ ex[e].verdict # "exhausted"
                         /\ \E idx \in 1..Len(found) :
                               /\ \/ found[idx][2] > ex[e].i
                                  \/ ex[e].i % found[idx][1] = 0
                               /\ \A h \in 1..(idx - 1) : found[h][2] <= ex[e].i

\* wheel() has yielded 113; its next call examines 121, which the stored
\* prime 11 divides, and 127, which the square of the stored prime 13 exceeds
C29_Witness ==
    /\ gens[1].kind = "wheel" /\ Len(out[1]) = 30 /\ out[1][30] = 113
    /\ wheelExamined(wheelFound(gens[1].st), gens[1].st.i, gens[1].st.k)
          = <<[i |-> 121, verdict |-> "composite"], [i |-> 127, verdict |-> "prime"]>>
    /\ genNext(gens[1]).val = 127

RECURSIVE croftExamined(_, _)
\* the candidates q the for loop of croft() takes from compress(...) up to
\* its next yield
croftExamined(roots, pos) ==
    LET q == 7 + 2 * pos IN
    IF selectors[(pos % Len(selectors)) + 1] = 0
    THEN croftExamined(roots, pos + 1)
    ELSE <<q>> \o (IF q \in DOMAIN roots
                   THEN LET p == roots[q]
                            r1 == DictDel(roots, q)
                        IN  croftExamined(DictPut(r1, croftSkip(r1, q + 2 * p, p), p), pos + 1)
                   ELSE <<>>)

\* the candidates the next next() call of a croft generator examines are odd,
\* coprime to 30 and neither 9 nor 25
CroftCandidatesOk(g) ==
    g.st.pc = Len(croftSmall) =>
        LET roots == IF g.st.pos = 0 THEN DictPut(DictPut(EmptyDict, 9, 3), 25, 5)
                     ELSE g.st.roots
            ex == croftExamined(roots, g.st.pos)
        IN  \A e \in 1..Len(ex) :
               ex[e] % 2 = 1 /\ GCD(ex[e], 30) = 1 /\ ex[e] \notin {9, 25}

\* roots of a croft generator suspended after the values in yielded: one
\* entry for each odd prime yielded, each key a multiple of its prime, the
\* entries 9 -> 3 and 25 -> 5 in place
CroftRootsOk(g, yielded) ==
    LET roots == g.st.roots
        k == Len(yielded)
    IN  /\ Cardinality(DOMAIN roots) = k - 1
        /\ {roots[key] : key \in DOMAIN roots} = {yielded[j] : j \in 2..k}
        /\ Cardinality({yielded[j] : j \in 2..k}) = k - 1
        /\ \A key \in DOMAIN roots : key % roots[key] = 0
        /\ 9 \in DOMAIN roots /\ roots[9] = 3
        /\ 25 \in DOMAIN roots /\ roots[25] = 5

\* C30 as stated: every candidate croft() examines is odd and coprime to 30,
\* and suspended after k >= 3 primes its roots holds exactly one entry for
\* each odd prime yielded, with 9 -> 3 and 25 -> 5 untouched
C30_CroftRoots ==
    \A s \in DOMAIN gens :
        gens[s].kind = "croft" =>
            /\ CroftCandidatesOk(gens[s])
            /\ Len(out[s]) >= 3 => CroftRootsOk(gens[s], out[s])

\* C30 amended: the same from k >= 4 on; suspended at the yield of 5 the
\* generator has not yet bound roots
C30_CroftRootsFromFour ==
    \A s \in DOMAIN gens :
        gens[s].kind = "croft" =>
            /\ CroftCandidatesOk(gens[s])
            /\ Len(out[s]) >= 4 => CroftRootsOk(gens[s], out[s])
            /\ Len(out[s]) = 3 => gens[s].st.roots = EmptyDict

\* croft() has yielded 2 .. 47; roots holds the fourteen odd primes, the
\* entry of 7 moved on from 49, and the next call examines 49 before 53
C30_Witness ==
    /\ gens[1].kind = "croft" /\ Len(out[1]) = 15 /\ out[1][15] = 47
    /\ Cardinality(DOMAIN gens[1].st.roots) = 14
    /\ gens[1].st.roots[49] = 7
    /\ croftExamined(gens[1].st.roots, gens[1].st.pos) = <<49, 53>>
    /\ genNext(gens[1]).g.st.roots[77] = 7

====
